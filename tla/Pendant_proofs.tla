---------------------------- MODULE Pendant_proofs ----------------------------
(***************************************************************************)
(* Proofs about the pendant's supervisor, the runtime around it and the     *)
(* servo cycle around both, for every set of motors, every threshold and    *)
(* every set of inputs.                                                     *)
(*   1. The gesture: what the supervisor rests on of its operators.         *)
(*   2. The supervisor's handlers, one by one: the motion record keeps its  *)
(*      type, a fault leaves it inert, no handler of the jog branch enters  *)
(*      a startup phase.                                                    *)
(*   3. IInv, the inductive invariant of power, gate, requests and gesture, *)
(*      and the theorems that follow from it.                               *)
(*   4. The handlers again: the phase, the jog, the attributed limit and    *)
(*      the command stay in agreement, and a jog turns only with the        *)
(*      consumer's leave.                                                   *)
(*   5. MotionIInv, which adds that to IInv, and what no step may do.       *)
(*   6. The runtime: what is proved of the supervisor on its own carries    *)
(*      over to the supervisor inside the runtime, where a cycle may combine*)
(*      two of its operations; on top of it come the types of the runtime,  *)
(*      the guards' faults, the E-stop button and the increments: who issued*)
(*      the one that stands, and what was alive when it was issued.         *)
(*   7. The servo cycle: the motion channel stays within its types for every*)
(*      budget and count width, what is proved of the runtime holds behind  *)
(*      the realtime component too, no offer loses or adds a pulse, the     *)
(*      channel refuses nothing, and an increment outlives its jog only     *)
(*      after a probe contact.  The last two need an invariant that joins   *)
(*      supervisor and channel, ServoJogInv: what the supervisor may ask    *)
(*      (Sized), what it may do while an increment is still on its way      *)
(*      (Rides), and what the channel has room for (Carries).               *)
(***************************************************************************)
EXTENDS ServoCycle, SupervisorSafety, TLAPS

EarlyStages ==
    {"Inactive", "WaitEstopRelease", "WaitX10", "WaitX1", "WaitOff",
     "WaitClockwise", "WaitCounterclockwise"}
IdleStages == {"Inactive", "WaitEstopRelease", "WaitX10"}

GestureInv(g) ==
    /\ g \in Recovery
    /\ g.stage \in EarlyStages => g.clicks = 0
    /\ g.stage \in {"WaitButtonPress", "WaitButtonRelease"} => g.clicks \in 0..2
    /\ g.stage = "CompletePending" => g.clicks = 3
    /\ g.stage \notin IdleStages => g.quadrature \in Quadratures
-----------------------------------------------------------------------------
(* The gesture                                                              *)

(* The table of the automaton, read at each of its stages.                  *)
LEMMA StageAfterValues ==
    /\ StageAfter["WaitEstopRelease"] = "WaitX1"
    /\ StageAfter["WaitX10"] = "WaitX1"
    /\ StageAfter["WaitX1"] = "WaitOff"
    /\ StageAfter["WaitOff"] = "WaitClockwise"
    /\ StageAfter["WaitClockwise"] = "WaitCounterclockwise"
    /\ StageAfter["WaitCounterclockwise"] = "WaitButtonPress"
    /\ StageAfter["WaitButtonPress"] = "WaitButtonRelease"
BY DEF StageAfter

(* One accepted packet, from each stage that awaits one.                    *)
LEMMA AdvancedKeepsInv ==
    ASSUME NEW g, GestureInv(g), NEW s \in Sample, Awaited(g, s),
           g.quadrature \in Quadratures
    PROVE  /\ GestureInv(Advanced(g))
           /\ Advanced(g).quadrature = g.quadrature
<1> USE DEF GestureInv
<1>1. CASE g.stage = "WaitButtonRelease"
  <2> DEFINE c == g.clicks + 1
             t == IF c = 3 THEN "CompletePending" ELSE "WaitButtonPress"
  <2>1. c \in 0..3 /\ t \in Stages
    BY <1>1 DEF Stages
  <2>2. Advanced(g) = [g EXCEPT !.clicks = c, !.stage = t]
    BY <1>1 DEF Advanced
  <2>3. /\ t = "CompletePending" => c = 3
        /\ t # "CompletePending" => t = "WaitButtonPress" /\ c \in 0..2
    BY <2>1
  <2> HIDE DEF c, t
  <2>4. /\ Advanced(g) \in Recovery
        /\ Advanced(g).clicks = c /\ Advanced(g).stage = t
        /\ Advanced(g).quadrature = g.quadrature
    BY <2>1, <2>2 DEF Recovery
  <2> QED
    BY <2>3, <2>4 DEF EarlyStages, IdleStages
<1>2. CASE g.stage # "WaitButtonRelease"
  <2>1. g.stage \in {"WaitEstopRelease", "WaitX10", "WaitX1", "WaitOff",
                     "WaitClockwise", "WaitCounterclockwise", "WaitButtonPress"}
    BY <1>2 DEF Awaited
  <2>2. Advanced(g) = [g EXCEPT !.stage = StageAfter[g.stage]]
    BY <1>2 DEF Advanced
  <2>3. StageAfter[g.stage] \in
            {"WaitX1", "WaitOff", "WaitClockwise", "WaitCounterclockwise",
             "WaitButtonPress", "WaitButtonRelease"}
    BY <2>1, StageAfterValues
  <2>4. g.stage # "WaitButtonPress" => g.stage \in EarlyStages
    BY <2>1 DEF EarlyStages
  <2>5. g.clicks \in 0..2
    BY <2>1, <2>4
  <2>6. StageAfter[g.stage] = "WaitButtonRelease" \/ g.clicks = 0
    BY <2>1, <2>4, StageAfterValues
  <2> QED
    BY <2>2, <2>3, <2>5, <2>6 DEF Recovery, Stages, EarlyStages, IdleStages
<1> QED BY <1>1, <1>2

(* engage(), restart() and accept_unlock() leave nothing of the gesture.    *)
LEMMA ResetsKeepInv ==
    ASSUME NEW s \in Sample
    PROVE  GestureInv(Engaged(s)) /\ GestureInv(Restarted(s))
BY DEF Sample, GestureInv, Engaged, Restarted, Recovery, Stages, EarlyStages,
       IdleStages

LEMMA InactiveKeepsInv == GestureInv(InactiveRecovery)
BY DEF GestureInv, InactiveRecovery, Recovery, Stages, EarlyStages, IdleStages

(* The gesture under the error counter of the packet being processed.       *)
Counted(g, s) == [g EXCEPT !.quadrature = s.quadrature]

(* The outcomes of process(), the only ones there are.                      *)
LEMMA ProcessedCases ==
    ASSUME NEW g, GestureInv(g), NEW s \in Sample
    PROVE  \/ ~RecoveryActive(g) /\ Processed(g, s) = g
           \/ Processed(g, s) = Engaged(s)
           \/ Processed(g, s) = Restarted(s)
           \/ /\ RecoveryActive(g) /\ ~s.pressed
              /\ g.quadrature = None \/ g.quadrature = s.quadrature
              /\ \/ Awaited(Counted(g, s), s)
                    /\ Processed(g, s) = Advanced(Counted(g, s))
                 \/ Tolerated(Counted(g, s), s)
                    /\ Processed(g, s) = Counted(g, s)
BY DEF Processed, Counted

(* The error counter the packet brings is the only change before the move.  *)
LEMMA CountedKeepsInv ==
    ASSUME NEW g, GestureInv(g), NEW s \in Sample
    PROVE  /\ GestureInv(Counted(g, s))
           /\ Counted(g, s).quadrature = s.quadrature
           /\ Counted(g, s).stage = g.stage
           /\ Counted(g, s).clicks = g.clicks
           /\ s.quadrature \in Quadratures
BY DEF Sample, GestureInv, Recovery, Counted

LEMMA ProcessedKeepsInv ==
    ASSUME NEW g, GestureInv(g), NEW s \in Sample
    PROVE  GestureInv(Processed(g, s))
<1>1. Awaited(Counted(g, s), s) => GestureInv(Advanced(Counted(g, s)))
  BY CountedKeepsInv, AdvancedKeepsInv
<1> QED
  BY <1>1, ResetsKeepInv, CountedKeepsInv, ProcessedCases
-----------------------------------------------------------------------------
StartupPhases == StartupPowerPhases \cup StartupBouncePhases
JogPhases == Phases \ StartupPhases

Inert(m) ==
    /\ m.phase = "Idle" /\ m.limitReset = {} /\ m.active = None
    /\ m.pending = None /\ m.collision = None

(* A record a handler may be given, and one it may return.                  *)
Live(m) == m \in Motion /\ m.fault = None /\ m.phase \in JogPhases
Safe(m) ==
    m \in Motion /\ m.phase \in JogPhases /\ (m.fault # None => Inert(m))
-----------------------------------------------------------------------------
(* The data of the handlers                                                 *)

LEMMA PhaseFacts ==
    /\ {"Idle", "StoppingCancel", "StoppingReplace", "StoppingBounce",
        "Bouncing", "BounceResetAssert", "BounceResetValidate",
        "BounceReleaseWait", "BounceReleaseJog", "BounceReleaseStopping"}
           \subseteq JogPhases
    /\ JogPhases \subseteq Phases /\ StartupPhases \subseteq Phases
BY DEF Phases, BouncePhases, ReleasePhases, JogPhases, StartupPhases,
       StartupPowerPhases, StartupBouncePhases

LEMMA TimerFacts == 0 \in Timer /\ \A t \in Timer : Elapse(t) \in Timer
BY TimerAssumption DEF Timer, Elapse

LEMMA NoneFacts ==
    /\ None \notin ActiveJog /\ None \notin Faults /\ None \notin Sample
    /\ None \notin Paths /\ None \notin Commands
BY NoneAssumption

LEMMA CommandFacts == JogStop \in Commands /\ JogStopImmediate \in Commands
BY DEF Commands

LEMMA InterpreterFacts ==
    /\ NewInterpreter \in Interpreter
    /\ \A n \in Interpreter, s \in Sample : Interpreted(n, s) \in Interpreter
<1>1. NewInterpreter \in Interpreter
  BY DEF NewInterpreter, Interpreter
<1>2. ASSUME NEW n \in Interpreter, NEW s \in Sample
      PROVE  Interpreted(n, s) \in Interpreter
  <2>1. Selects(s) => SelectionOf(s) \in Selection
    BY DEF Selects, SelectionOf, Selection
  <2>2. s.quadrature \in Quadratures
    BY DEF Sample
  <2> QED BY <2>1, <2>2 DEF Interpreted, Interpreter
<1> QED BY <1>1, <1>2

(* A detent that is honoured is a move of a motor by a whole number.        *)
LEMMA IntentType ==
    ASSUME NEW n, NEW s \in Sample, Decision(n, s) = "Jog"
    PROVE  IntentOf(s) \in Intent
<1>1. s.axis \in Motors /\ s.multiplier \in Multipliers
  BY DEF Decision, Selects
<1>2. /\ s.detent \in Int /\ ClockwiseSign[s.axis] \in Int
      /\ Pulses[s.multiplier] \in Int
  BY <1>1, InterpreterAssumption DEF Sample, Detents
<1>3. s.detent * ClockwiseSign[s.axis] * Pulses[s.multiplier] \in Int
  BY <1>2
<1> QED BY <1>1, <1>3 DEF IntentOf, Intent

LEMMA SingleType ==
    ASSUME NEW S \in SUBSET Motors PROVE SingleOf(S) \in Motors \cup {None}
BY DEF SingleOf, IsSingle
-----------------------------------------------------------------------------
(* The handlers, from the smallest to update()'s jog branch                 *)

(* transition() changes the phase and its two clocks.                       *)
LEMMA ToType ==
    ASSUME NEW m \in Motion, NEW p \in Phases
    PROVE  /\ To(m, p) \in Motion /\ To(m, p).phase = p
           /\ To(m, p).fault = m.fault /\ To(m, p).active = m.active
           /\ To(m, p).pending = m.pending /\ To(m, p).command = m.command
           /\ To(m, p).collision = m.collision
           /\ To(m, p).limitReset = m.limitReset
           /\ To(m, p).mode = m.mode /\ To(m, p).interp = m.interp
           /\ To(m, p).homingWas = m.homingWas
<1>1. To(m, p) \in Motion
  BY TimerFacts DEF To, Motion
<1> QED BY <1>1 DEF To, Motion

LEMMA ToLive ==
    ASSUME NEW m, Live(m), NEW p \in JogPhases
    PROVE  Live(To(m, p))
BY ToType, PhaseFacts DEF Live

LEMMA LiveIsSafe == ASSUME NEW m, Live(m) PROVE Safe(m)
BY DEF Live, Safe

(* fail(): the first fault wins and leaves the record inert.                *)
LEMMA FailSafe ==
    ASSUME NEW m \in Motion, m.fault # None => Inert(m), NEW code \in Faults
    PROVE  /\ Safe(Fail(m, code)) /\ Fail(m, code).fault # None
           /\ Inert(Fail(m, code))
<1>1. CASE m.fault # None
  BY <1>1, PhaseFacts DEF Fail, Safe, Inert
<1>2. CASE m.fault = None
  <2> DEFINE t == To(m, "Idle")
  <2>1. t \in Motion /\ t.phase = "Idle"
    BY ToType, PhaseFacts
  <2>2. Fail(m, code) =
            [t EXCEPT !.fault = code, !.command = JogStopImmediate,
                      !.active = None, !.pending = None, !.collision = None,
                      !.bounceStarted = FALSE, !.limitReset = {}]
    BY <1>2 DEF Fail
  <2> HIDE DEF t
  <2>3. Fail(m, code) \in Motion
    BY <2>1, <2>2, CommandFacts DEF Motion
  <2>4. /\ Fail(m, code).fault = code /\ Inert(Fail(m, code))
    BY <2>1, <2>2 DEF Motion, Inert
  <2> QED BY <2>3, <2>4, NoneFacts, PhaseFacts DEF Safe, Inert
<1> QED BY <1>1, <1>2

LEMMA FailLive ==
    ASSUME NEW m, Live(m), NEW code \in Faults
    PROVE  Safe(Fail(m, code))
BY FailSafe DEF Live

LEMMA CancelLive ==
    ASSUME NEW m, Live(m)
    PROVE  Live(CancelPendantMotion(m))
<1> DEFINE c == [m EXCEPT !.pending = None]
           d == [c EXCEPT !.command = JogStop]
<1>1. Live(c) /\ Live(d)
  BY CommandFacts, ZenonT(30) DEF Live, Motion
<1>2. CancelPendantMotion(m) \in
          {c, To(d, "BounceReleaseStopping"), To(d, "StoppingCancel")}
  BY DEF CancelPendantMotion
<1> HIDE DEF c, d
<1> QED BY <1>1, <1>2, ToLive, PhaseFacts

(* An increment is issued together with the jog it starts.                  *)
LEMMA IssueLive ==
    ASSUME NEW m \in Motion, m.fault = None, NEW motor \in Motors,
           NEW path \in Paths, NEW delta \in Int, NEW p \in JogPhases
    PROVE  Live(Issue(m, motor, path, delta, p))
<1>1. NewActive(motor, delta, path) \in ActiveJog
  BY TimerFacts DEF NewActive, ActiveJog
<1>2. JogIncrement(motor, path, delta) \in Commands
  BY DEF JogIncrement, Commands, Increment
<1>3. Live(To(m, p))
  BY ToType, PhaseFacts DEF Live
<1> QED BY <1>1, <1>2, <1>3 DEF Issue, Live, Motion

LEMMA StartJogSafe ==
    ASSUME NEW m, Live(m), NEW t \in Intent, NEW i \in Input
    PROVE  Safe(StartJog(m, t, i))
<1>1. i.path # None => Live(Issue(m, t.motor, i.path, t.delta, "Idle"))
  BY IssueLive, PhaseFacts DEF Live, Input, Intent
<1>2. i.path # None =>
          Live([Issue(m, t.motor, i.path, t.delta, "Idle") EXCEPT !.pending = None])
  BY <1>1 DEF Live, Motion
<1>3. Live([m EXCEPT !.pending = t])
  BY DEF Live, Motion
<1>4. Safe(Fail(m, "FeedbackUnusable"))
  BY FailLive DEF Faults
<1> QED BY <1>2, <1>3, <1>4, LiveIsSafe DEF StartJog

LEMMA ExtendLive ==
    ASSUME NEW m, Live(m), m.active # None, NEW t \in Intent, NEW i \in Input
    PROVE  Live(Extend(m, t, i))
<1>1. m.active \in ActiveJog
  BY DEF Live, Motion
<1>2. [m.active EXCEPT !.delta = t.delta, !.elapsed = 0] \in ActiveJog
  BY <1>1, TimerFacts DEF ActiveJog, Intent
<1>3. Extension(t, i) \in Int
  BY DEF Extension, Intent, Input
<1>4. JogIncrement(t.motor, m.active.path, Extension(t, i)) \in Commands
  BY <1>1, <1>3 DEF JogIncrement, Commands, Increment, ActiveJog, Intent
<1> QED BY <1>2, <1>4 DEF Extend, Live, Motion

LEMMA RequestJogSafe ==
    ASSUME NEW m, Live(m), NEW t \in Intent, NEW i \in Input
    PROVE  Safe(RequestJog(m, t, i))
<1> DEFINE kept == [m EXCEPT !.active = [m.active EXCEPT !.delta = t.delta],
                             !.pending = None]
           waits == [m EXCEPT !.pending = t]
           stops == To([m EXCEPT !.pending = t, !.command = JogStop],
                       "StoppingReplace")
<1>1. Live(waits)
  BY DEF Live, Motion
<1>2. Live(stops)
  <2>1. Live([m EXCEPT !.pending = t, !.command = JogStop])
    BY CommandFacts DEF Live, Motion
  <2> QED BY <2>1, ToLive, PhaseFacts
<1>3. m.active # None => Live(kept)
  <2>1. m.active # None => [m.active EXCEPT !.delta = t.delta] \in ActiveJog
    BY DEF Live, Motion, ActiveJog, Intent
  <2> QED BY <2>1 DEF Live, Motion
<1>4. RequestJog(m, t, i) \in
          {m, StartJog(m, t, i), waits, stops}
              \cup (IF m.active # None THEN {kept, Extend(m, t, i)} ELSE {})
  BY DEF RequestJog
<1> HIDE DEF kept, waits, stops
<1> QED BY <1>1, <1>2, <1>3, <1>4, StartJogSafe, ExtendLive, LiveIsSafe

LEMMA BeginBounceSafe ==
    ASSUME NEW m, Live(m), NEW motor \in Motors
    PROVE  Safe(BeginBounce(m, motor))
<1> DEFINE d == [m EXCEPT !.command = JogStopImmediate, !.pending = None,
                          !.collision = motor, !.bounceStarted = FALSE]
<1>1. Live(d)
  BY CommandFacts, ZenonT(30) DEF Live, Motion
<1>2. BeginBounce(m, motor) \in {Fail(m, "UnexpectedLimit"), To(d, "StoppingBounce")}
  BY DEF BeginBounce
<1> HIDE DEF d
<1> QED BY <1>1, <1>2, ToLive, FailLive, LiveIsSafe, PhaseFacts DEF Faults

LEMMA BeginLimitResetLive ==
    ASSUME NEW m, Live(m), NEW motor \in Motors
    PROVE  Live(BeginLimitReset(m, motor))
<1> DEFINE d == [m EXCEPT !.active = None, !.pending = None,
                          !.limitReset = m.limitReset \cup {motor}]
<1>1. Live(d)
  BY ZenonT(30) DEF Live, Motion
<1>2. BeginLimitReset(m, motor) = To(d, "BounceResetAssert")
  BY DEF BeginLimitReset
<1> HIDE DEF d
<1> QED BY <1>1, <1>2, ToLive, PhaseFacts

(* Also called from the startup, whose phases it leaves or keeps.           *)
LEMMA StartBounceMoveSafe ==
    ASSUME NEW m \in Motion, m.fault = None, NEW path \in Paths, NEW i \in Input
    PROVE  Safe(StartBounceMove(m, path, i)) \/ StartBounceMove(m, path, i) = m
<1> DEFINE d == Issue(m, m.collision, path, -BouncePulses, "Bouncing")
<1>1. m.collision # None => Live(d)
  <2>1. -BouncePulses \in Int
    BY TimerAssumption
  <2>2. m.collision \in Motors \cup {None}
    BY DEF Motion
  <2> QED BY <2>1, <2>2, IssueLive, PhaseFacts
<1>2. m.collision # None => Live([d EXCEPT !.bounceStarted = TRUE])
  <2> HIDE DEF d
  <2> QED BY <1>1 DEF Live, Motion
<1>3. /\ Safe(Fail(m, "BounceLostLimitAttribution"))
      /\ Safe(Fail(m, "MotionPathUnavailable"))
      /\ Safe(Fail(m, "FeedbackUnusable"))
  BY FailSafe DEF Faults
<1> QED BY <1>2, <1>3, LiveIsSafe DEF StartBounceMove

LEMMA StartLimitReleaseJogSafe ==
    ASSUME NEW m, Live(m), NEW t \in Intent, NEW i \in Input
    PROVE  Safe(StartLimitReleaseJog(m, t, i))
<1> DEFINE d == Issue(m, t.motor, i.path, t.delta, "BounceReleaseJog")
<1>1. i.path # None => Live([d EXCEPT !.pending = None])
  <2>1. i.path # None => Live(d)
    BY IssueLive, PhaseFacts DEF Live, Input, Intent
  <2> HIDE DEF d
  <2> QED BY <2>1 DEF Live, Motion
<1>2. m.collision # None => Live(BeginLimitReset(m, m.collision))
  BY BeginLimitResetLive DEF Live, Motion
<1>3. /\ Safe(Fail(m, "BounceLostLimitAttribution"))
      /\ Safe(Fail(m, "FeedbackUnusable"))
  BY FailLive DEF Faults
<1> QED BY <1>1, <1>2, <1>3, LiveIsSafe DEF StartLimitReleaseJog

(* The jog is over: nothing active, nothing pending, a fresh interpreter.   *)
LEMMA StoodDownLive ==
    ASSUME NEW m, Live(m), NEW p \in JogPhases
    PROVE  /\ Live(To([m EXCEPT !.active = None, !.pending = None,
                                !.interp = NewInterpreter], p))
           /\ Live(To([m EXCEPT !.active = None, !.pending = None], p))
           /\ Live(To([m EXCEPT !.active = None], p))
           /\ Live(To([m EXCEPT !.active = None, !.pending = None,
                                !.collision = None, !.bounceStarted = FALSE,
                                !.interp = NewInterpreter], p))
<1>1. Live([m EXCEPT !.active = None, !.pending = None, !.interp = NewInterpreter])
  BY InterpreterFacts, ZenonT(30) DEF Live, Motion
<1>2. Live([m EXCEPT !.active = None, !.pending = None])
  BY ZenonT(30) DEF Live, Motion
<1>3. Live([m EXCEPT !.active = None])
  BY DEF Live, Motion
<1>4. Live([m EXCEPT !.active = None, !.pending = None, !.collision = None,
                     !.bounceStarted = FALSE, !.interp = NewInterpreter])
  BY InterpreterFacts, ZenonT(30) DEF Live, Motion
<1> QED BY <1>1, <1>2, <1>3, <1>4, ToLive

LEMMA FinishUnacceptedJogLive ==
    ASSUME NEW m, Live(m)
    PROVE  Live(FinishUnacceptedJog(m))
BY StoodDownLive, PhaseFacts, Zenon DEF FinishUnacceptedJog

LEMMA FinishBounceSafe ==
    ASSUME NEW m, Live(m), NEW i \in Input
    PROVE  /\ Safe(FinishBounce(m, i))
           /\ FinishBounce(m, i).phase \in {"Bouncing", "BounceReleaseJog"} =>
                  Live(FinishBounce(m, i))
<1>1. m.collision # None => Live(BeginLimitReset(m, m.collision))
  BY BeginLimitResetLive DEF Live, Motion
<1>2. /\ Safe(Fail(m, "BounceLostLimitAttribution"))
      /\ Fail(m, "BounceLostLimitAttribution").phase = "Idle"
      /\ Safe(Fail(m, "FeedbackUnusable"))
      /\ Fail(m, "FeedbackUnusable").phase = "Idle"
  BY FailSafe DEF Faults, Live, Inert
<1>3. Live(To([m EXCEPT !.active = None, !.pending = None,
                        !.interp = NewInterpreter], "BounceReleaseWait"))
  BY StoodDownLive, PhaseFacts, Zenon
<1> QED BY <1>1, <1>2, <1>3, LiveIsSafe DEF FinishBounce

LEMMA AdvanceLatchResetSafe ==
    ASSUME NEW m, Live(m), NEW i \in Input
    PROVE  Safe(AdvanceLatchReset(m, i))
<1>1. Live(To([m EXCEPT !.limitReset = {}], "BounceResetValidate"))
  <2>1. Live([m EXCEPT !.limitReset = {}])
    BY DEF Live, Motion
  <2> QED BY <2>1, ToLive, PhaseFacts
<1>2. Safe(Fail(m, "LimitLatchResetTimedOut"))
  BY FailLive DEF Faults
<1> QED
  BY <1>1, <1>2, StoodDownLive, LiveIsSafe, PhaseFacts, Zenon DEF AdvanceLatchReset

LEMMA AdvanceReleaseWaitSafe ==
    ASSUME NEW m, Live(m), NEW i \in Input
    PROVE  Safe(AdvanceReleaseWait(m, i))
<1>1. m.collision # None => Live(BeginLimitReset(m, m.collision))
  BY BeginLimitResetLive DEF Live, Motion
<1>2. Safe(Fail(m, "BounceLostLimitAttribution"))
  BY FailLive DEF Faults
<1> QED BY <1>1, <1>2, LiveIsSafe DEF AdvanceReleaseWait

LEMMA StartPendingSafe ==
    ASSUME NEW m, Live(m), NEW i \in Input
    PROVE  Safe(StartPending(m, i))
<1>1. Live([m EXCEPT !.pending = None])
  BY DEF Live, Motion
<1>2. m.pending # None => m.pending \in Intent
  BY DEF Live, Motion
<1> QED BY <1>1, <1>2, StartJogSafe, LiveIsSafe DEF StartPending

LEMMA AdvanceStoppingSafe ==
    ASSUME NEW m, Live(m), m.active # None, NEW i \in Input
    PROVE  Safe(AdvanceStopping(m, i))
<1>1. m.active.path \in Paths
  BY DEF Live, Motion, ActiveJog
<1>2. Safe(StartBounceMove(m, m.active.path, i))
  BY <1>1, StartBounceMoveSafe, LiveIsSafe DEF Live
<1>3. Safe(StartPending(To([m EXCEPT !.active = None], "Idle"), i))
  BY StoodDownLive, StartPendingSafe, PhaseFacts, Zenon
<1>4. Safe(Fail(m, "MotionStopTimedOut"))
  BY FailLive DEF Faults
<1> QED
  BY <1>2, <1>3, <1>4, StoodDownLive, LiveIsSafe, PhaseFacts
     DEF AdvanceStopping

LEMMA AdvanceBounceSafe ==
    ASSUME NEW m, Live(m), NEW i \in Input
    PROVE  Safe(AdvanceBounce(m, i))
<1>1. /\ Safe(Fail(m, "MotionPathUnavailable"))
      /\ Safe(Fail(m, "JogCommandNotAccepted"))
      /\ Safe(Fail(m, "BounceTimedOut"))
  BY FailLive DEF Faults
<1>2. FinishBounce(m, i).phase \in {"Bouncing", "BounceReleaseJog"} =>
          Safe(Fail(FinishBounce(m, i), "BounceCountMismatch"))
  BY FinishBounceSafe, FailLive DEF Faults
<1> QED
  BY <1>1, <1>2, FinishBounceSafe, FinishUnacceptedJogLive, CancelLive,
     LiveIsSafe DEF AdvanceBounce

LEMMA AdvanceJogSafe ==
    ASSUME NEW m, Live(m), NEW i \in Input
    PROVE  Safe(AdvanceJog(m, i))
<1>1. /\ Safe(Fail(m, "FeedbackUnusable"))
      /\ Safe(Fail(m, "JogTimedOut"))
      /\ Safe(Fail(m, "JogCountMismatch"))
  BY FailLive DEF Faults
<1>2. Safe(StartPending(To([m EXCEPT !.active = None], "Idle"), i))
  BY StoodDownLive, StartPendingSafe, PhaseFacts, Zenon
<1> QED
  BY <1>1, <1>2, FinishUnacceptedJogLive, CancelLive, LiveIsSafe
     DEF AdvanceJog

LEMMA AdvanceActiveSafe ==
    ASSUME NEW m, Live(m), m.active # None, NEW i \in Input
    PROVE  Safe(AdvanceActive(m, i))
<1>1. Live(Observe(m, i)) /\ Observe(m, i).active # None
  <2> DEFINE e == Elapse(m.active.elapsed)
             b == m.active.seen \/ WheelActive(i)
             a == ObserveMotion(m.active, i)
  <2>1. m.active \in ActiveJog
    BY DEF Live, Motion
  <2>2. e \in Timer /\ b \in BOOLEAN
    BY <2>1, TimerFacts DEF WheelActive, ActiveJog
  <2>3. a = [m.active EXCEPT !.elapsed = e, !.seen = b]
    BY DEF ObserveMotion
  <2> HIDE DEF e, b, a
  <2>4. a \in ActiveJog
    BY <2>1, <2>2, <2>3 DEF ActiveJog
  <2> QED BY <2>4, NoneFacts DEF Observe, Live, Motion, a
<1> QED
  BY <1>1, AdvanceStoppingSafe, AdvanceBounceSafe, AdvanceJogSafe, LiveIsSafe
     DEF AdvanceActive

LEMMA AdvanceMotionSafe ==
    ASSUME NEW m, Live(m), NEW i \in Input
    PROVE  Safe(AdvanceMotion(m, i))
<1> DEFINE c == CountTotal(m)
<1>1. Live(c) /\ c.phase = m.phase
  BY TimerFacts DEF CountTotal, Live, Motion
<1>2. Safe(Fail(c, "BounceTimedOut"))
  BY <1>1, FailLive DEF Faults
<1> HIDE DEF c
<1>3. /\ Safe(AdvanceLatchReset(c, i)) /\ Safe(AdvanceReleaseWait(c, i))
      /\ c.active # None => Safe(AdvanceActive(c, i))
      /\ Safe(StartPending(c, i)) /\ Safe(c)
  BY <1>1, AdvanceLatchResetSafe, AdvanceReleaseWaitSafe, AdvanceActiveSafe,
     StartPendingSafe, LiveIsSafe
<1>4. AdvanceMotion(m, i) \in
          {Fail(c, "BounceTimedOut"), AdvanceLatchReset(c, i),
           AdvanceReleaseWait(c, i), StartPending(c, i), c}
              \cup (IF c.active # None THEN {AdvanceActive(c, i)} ELSE {})
  BY DEF AdvanceMotion, c
<1> QED BY <1>2, <1>3, <1>4

LEMMA DrainPendingSafe ==
    ASSUME NEW m, Safe(m), NEW i \in Input
    PROVE  Safe(DrainPending(m, i))
<1>1. CASE m.fault # None
  BY <1>1 DEF DrainPending, Safe, Inert
<1>2. CASE m.fault = None
  <2>1. Live(m)
    BY <1>2 DEF Safe, Live
  <2>2. Live([m EXCEPT !.pending = None])
    BY <2>1 DEF Live, Motion
  <2>3. m.pending # None => m.pending \in Intent
    BY <2>1 DEF Live, Motion
  <2> QED
    BY <2>1, <2>2, <2>3, StartJogSafe, RequestJogSafe, LiveIsSafe
       DEF DrainPending
<1> QED BY <1>1, <1>2

LEMMA CheckLimitsSafe ==
    ASSUME NEW m, Live(m), NEW i \in Input
    PROVE  Safe(CheckLimits(m, i))
<1>1. /\ Safe(Fail(m, "BounceLostLimitAttribution"))
      /\ Safe(Fail(m, "UnexpectedLimit"))
  BY FailLive DEF Faults
<1>2. m.active # None => Safe(BeginBounce(m, m.active.motor))
  BY BeginBounceSafe DEF Live, Motion, ActiveJog
<1> QED BY <1>1, <1>2, LiveIsSafe DEF CheckLimits

LEMMA ManageHomingLatchesLive ==
    ASSUME NEW m, Live(m), NEW i \in Input
    PROVE  Live(ManageHomingLatches(m, i))
<1> DEFINE w == Elapse(m.homingElapsed)
<1>1. w \in Timer /\ 0 \in Timer
  BY TimerFacts DEF Live, Motion
<1>2. i.safety \in SUBSET Motors
  BY DEF Input
<1> HIDE DEF w
<1>3. Live([m EXCEPT !.homingWas = TRUE, !.homingElapsed = 0])
  BY <1>1 DEF Live, Motion
<1>4. Live([m EXCEPT !.limitReset = i.safety, !.homingElapsed = 0])
  BY <1>1, <1>2 DEF Live, Motion
<1>5. Live([m EXCEPT !.homingElapsed = w])
  BY <1>1 DEF Live, Motion
<1>6. Live([m EXCEPT !.limitReset = {}, !.homingElapsed = 0])
  BY <1>1 DEF Live, Motion
<1>7. Live([m EXCEPT !.homingWas = FALSE, !.homingElapsed = 0])
  BY <1>1 DEF Live, Motion
<1> QED
  BY <1>3, <1>4, <1>5, <1>6, <1>7, CancelLive DEF ManageHomingLatches, w

LEMMA OnPacketSafe ==
    ASSUME NEW m, Live(m), NEW i \in Input
    PROVE  Safe(OnPacket(m, i))
<1> SUFFICES ASSUME i.packet # None PROVE Safe(OnPacket(m, i))
  BY LiveIsSafe DEF OnPacket
<1> DEFINE n == [m EXCEPT !.interp = Interpreted(m.interp, i.packet)]
           d == Decision(m.interp, i.packet)
<1>1. i.packet \in Sample
  BY DEF Input
<1>2. Live(n)
  BY <1>1, InterpreterFacts DEF Live, Motion
<1>3. d = "Jog" => IntentOf(i.packet) \in Intent
  BY <1>1, IntentType
<1>4. Safe(Fail(n, "InvalidPendantPacket"))
  BY <1>2, FailLive DEF Faults
<1> HIDE DEF n
<1>5. Safe(OnLimitReleasePacket(m, i))
  BY <1>2, <1>3, <1>4, CancelLive, StartLimitReleaseJogSafe, LiveIsSafe
     DEF OnLimitReleasePacket, n
<1>6. Safe(OnJogPacket(m, i))
  BY <1>2, <1>3, <1>4, CancelLive, RequestJogSafe, LiveIsSafe
     DEF OnJogPacket, n
<1> QED BY <1>5, <1>6, LiveIsSafe DEF OnPacket

(* The jog branch of update() as a whole.                                   *)
LEMMA RunMotionSafe ==
    ASSUME NEW m, Live(m), NEW i \in Input
    PROVE  Safe(RunMotion(m, i))
<1> DEFINE c == CheckLimits(ManageHomingLatches(m, i), i)
           v == IF c.fault # None THEN c ELSE DrainPending(AdvanceMotion(c, i), i)
<1>1. Safe(c)
  BY ManageHomingLatchesLive, CheckLimitsSafe
<1>2. Safe(v)
  <2>1. c.fault = None => Live(c)
    BY <1>1 DEF Safe, Live
  <2> HIDE DEF c
  <2> QED BY <1>1, <2>1, AdvanceMotionSafe, DrainPendingSafe
<1>3. v.fault = None => Live(v)
  BY <1>2 DEF Safe, Live
<1>4. RunMotion(m, i) = IF v.fault # None THEN v ELSE OnPacket(v, i)
  BY DEF RunMotion
<1> HIDE DEF c, v
<1> QED BY <1>2, <1>3, <1>4, OnPacketSafe
-----------------------------------------------------------------------------
(* The inductive invariant.  It says which power step goes with which stage *)
(* of the gesture and which request, and keeps the startup apart from both: *)
(* without that, a request of the startup could be carried into a recovery. *)

Starting(m) ==
    m \in Motion /\ m.fault = None /\ m.phase \in StartupPhases /\ m.active = None
Faulted(m) == m \in Motion /\ m.fault # None /\ Inert(m)
MotionInv(m) == Live(m) \/ Starting(m) \/ Faulted(m)

LatchSteps == {"AwaitUiReset", "LimitResetAssert", "LimitResetValidate"}
AskingSteps == {"GateSettle", "WaitReset", "WaitOn"}

(* Which steps of the power sequence the gesture may be in.                 *)
StepInv(r, p, m) ==
    /\ p.step \in LatchSteps => r.stage = "Inactive"
    /\ p.step \in AskingSteps => r.stage \in {"Inactive", "CompletePending"}
    /\ p.step = "None" /\ m.fault = None => r.stage # "CompletePending"
    /\ p.restore => r.stage = "CompletePending" /\ p.step \in AskingSteps

(* What the gate and the two requests stand for.                            *)
OutputInv(r, p, m) ==
    /\ p.gate => /\ m.fault = None /\ p.step \in AskingSteps \cup {"None"}
                 /\ r.stage \in {"Inactive", "CompletePending"}
    /\ p.estopReset =>
          /\ m.fault = None /\ ~p.machineOn
          /\ \/ p.step = "WaitReset"
             \/ m.phase \in {"StartupReadyWaitReset", "StartupWaitReset"}
    /\ p.machineOn =>
          /\ m.fault = None
          /\ \/ p.step = "WaitOn" /\ p.restore
             \/ m.phase \in {"StartupReadyWaitOn", "StartupWaitOn"}

PowerInv(st, r, p, m) ==
    /\ st \in BOOLEAN /\ GestureInv(r) /\ p \in Power /\ MotionInv(m)
    /\ st => m.active = None
    /\ st \/ p.step # "None" \/ r.stage # "Inactive" => m.phase \notin StartupPhases
    /\ m.fault # None => p.step = "None" /\ ~p.restore
    /\ StepInv(r, p, m)
    /\ OutputInv(r, p, m)

IInv ==
    /\ link \in BOOLEAN /\ ready \in BOOLEAN
    /\ PowerInv(startup, recovery, power, motion)

LEMMA PhaseSplit ==
    /\ JogPhases \cap StartupPhases = {}
    /\ Phases = JogPhases \cup StartupPhases
    /\ "Idle" \notin StartupPhases
BY PhaseFacts DEF JogPhases

LEMMA StartupPhaseFacts ==
    {"StartupReadyGateSettle", "StartupReadyWaitReset", "StartupReadyWaitOn",
     "StartupGateSettle", "StartupWaitReset", "StartupWaitOn"} = StartupPhases
BY DEF StartupPhases, StartupPowerPhases, StartupBouncePhases

LEMMA MotionInvFacts ==
    ASSUME NEW m, MotionInv(m)
    PROVE  /\ m \in Motion
           /\ m.fault # None => Faulted(m)
           /\ m.fault = None /\ m.phase \notin StartupPhases => Live(m)
           /\ m.fault = None /\ m.phase \in StartupPhases => Starting(m)
BY PhaseSplit DEF MotionInv, Live, Starting, Faulted, Inert

LEMMA SafeMotion ==
    ASSUME NEW m, Safe(m)
    PROVE  /\ MotionInv(m) /\ m.phase \notin StartupPhases
           /\ m.fault = None => Live(m)
           /\ m.fault # None => Faulted(m)
BY PhaseSplit DEF MotionInv, Live, Faulted, Safe

(* latch_fault(): whatever the power state was, the fault drops it.         *)
LEMMA DroppedPower ==
    ASSUME NEW p \in Power
    PROVE  /\ Dropped(p) \in Power /\ Dropped(p).step = "None"
           /\ ~Dropped(p).gate /\ ~Dropped(p).restore
           /\ ~Dropped(p).estopReset /\ ~Dropped(p).machineOn
<1>1. "None" \in PowerSteps
  BY DEF PowerSteps
<1> QED BY <1>1 DEF Dropped, Unpowered, Closed, NoRequests, Power

LEMMA FaultKeeps ==
    ASSUME NEW st \in BOOLEAN, NEW r, GestureInv(r), NEW p \in Power,
           NEW m, Faulted(m)
    PROVE  PowerInv(st, r, Dropped(p), m)
BY DroppedPower, PhaseSplit
   DEF PowerInv, MotionInv, Faulted, Inert, StepInv, OutputInv, LatchSteps,
       AskingSteps

(* engage_estop() also drops the power state, with the motion stopped.      *)
LEMMA EngageKeeps ==
    ASSUME NEW st \in BOOLEAN, NEW p \in Power, NEW s \in Sample,
           NEW m \in Motion, m.fault = None
    PROVE  PowerInv(st, Engaged(s), Dropped(p), EngagedMotion(m))
<1> DEFINE t == To(m, "Idle")
           e == EngagedMotion(m)
<1>1. t \in Motion /\ t.phase = "Idle" /\ t.fault = None
  BY ToType, PhaseFacts, ZenonT(30)
<1>2. e = [t EXCEPT !.command = JogStopImmediate, !.active = None,
                    !.pending = None, !.collision = None,
                    !.bounceStarted = FALSE, !.limitReset = {},
                    !.interp = NewInterpreter]
  BY DEF EngagedMotion
<1> HIDE DEF t, e
<1>3. Live(e) /\ e.active = None
  BY <1>1, <1>2, CommandFacts, InterpreterFacts, PhaseFacts DEF Live, Motion
<1>4. GestureInv(Engaged(s)) /\ Engaged(s).stage = "WaitEstopRelease"
  BY ResetsKeepInv DEF Engaged
<1>5. e.phase \notin StartupPhases /\ e.fault = None
  BY <1>3, PhaseSplit DEF Live
<1>6. PowerInv(st, Engaged(s), Dropped(p), e)
  BY <1>3, <1>4, <1>5, DroppedPower
     DEF PowerInv, MotionInv, StepInv, OutputInv, LatchSteps, AskingSteps
<1> QED BY <1>6 DEF e

LEMMA ClosedKeeps ==
    ASSUME NEW st, NEW r, NEW p, NEW m, PowerInv(st, r, p, m)
    PROVE  PowerInv(st, r, Closed(p), m)
<1>1. /\ Closed(p) \in Power /\ ~Closed(p).gate
      /\ Closed(p).step = p.step /\ Closed(p).restore = p.restore
      /\ Closed(p).estopReset = p.estopReset
      /\ Closed(p).machineOn = p.machineOn
  BY DEF Closed, PowerInv, Power
<1> QED BY <1>1 DEF PowerInv, StepInv, OutputInv

(* begin_linuxcnc_estop_reset() ends the gesture, whatever the motion was.  *)
LEMMA ResetMotionSafe ==
    ASSUME NEW m \in Motion, m.fault = None, NEW i \in Input
    PROVE  Safe(ResetMotion(m, i))
<1> DEFINE k == SingleOf(i.raw)
           c == [m EXCEPT !.interp = NewInterpreter, !.collision = k]
           p == IF c.collision # None THEN "BounceReleaseWait" ELSE "Idle"
           t == To(c, p)
<1>1. k \in Motors \cup {None}
  BY SingleType DEF Input
<1> HIDE DEF k
<1>2. c \in Motion /\ c.fault = None
  BY <1>1, InterpreterFacts DEF Motion
<1> HIDE DEF c
<1>3. p \in JogPhases
  BY PhaseFacts
<1> HIDE DEF p
<1>4. Live(t)
  BY <1>2, <1>3, ToType, PhaseFacts DEF Live
<1> HIDE DEF t
<1>5. Live([t EXCEPT !.limitReset = Stale(i)])
  <2>1. Stale(i) \in SUBSET Motors
    BY DEF Stale, Input
  <2> QED BY <1>4, <2>1 DEF Live, Motion
<1>6. Safe(Fail(c, "LimitDuringRecovery"))
  BY <1>2, FailSafe DEF Faults
<1>7. ResetMotion(m, i) \in
          {Fail(c, "LimitDuringRecovery"), [t EXCEPT !.limitReset = Stale(i)], t}
  BY DEF ResetMotion, t, p, c, k
<1> QED BY <1>4, <1>5, <1>6, <1>7, LiveIsSafe

LEMMA ResetPowerFacts ==
    ASSUME NEW p \in Power, NEW i \in Input
    PROVE  /\ ResetPower(p, i) \in Power
           /\ ResetPower(p, i).step \in {"LimitResetAssert", "GateSettle"}
           /\ ResetPower(p, i).gate => ResetPower(p, i).step = "GateSettle"
           /\ ~ResetPower(p, i).restore
           /\ ~ResetPower(p, i).estopReset /\ ~ResetPower(p, i).machineOn
<1> DEFINE c == [Closed(NoRequests(p)) EXCEPT !.restore = FALSE]
<1>1. c \in Power /\ ~c.gate /\ ~c.restore /\ ~c.estopReset /\ ~c.machineOn
  BY DEF Closed, NoRequests, Power
<1>2. /\ {"LimitResetAssert", "GateSettle"} \subseteq PowerSteps
      /\ Stale(i) \in SUBSET Motors
  BY DEF PowerSteps, Stale, Input
<1> HIDE DEF c
<1> USE TimerFacts
<1>3. CASE Stale(i) # {}
  <2> DEFINE a == AtStep(c, "LimitResetAssert")
  <2>1. /\ a \in Power /\ ~a.gate /\ ~a.restore /\ a.step = "LimitResetAssert"
        /\ ~a.estopReset /\ ~a.machineOn
    BY <1>1, <1>2 DEF AtStep, Power
  <2> HIDE DEF a
  <2>2. ResetPower(p, i) = [a EXCEPT !.mask = Stale(i)]
    BY <1>3 DEF ResetPower, a, c
  <2> QED BY <1>2, <2>1, <2>2 DEF Power
<1>4. CASE Stale(i) = {}
  <2>1. ResetPower(p, i) = Opened(AtStep(c, "GateSettle"))
    BY <1>4 DEF ResetPower, c
  <2> QED BY <1>1, <1>2, <2>1 DEF Opened, AtStep, Power
<1> QED BY <1>3, <1>4

LEMMA ResetKeeps ==
    ASSUME NEW p \in Power, NEW m \in Motion, m.fault = None, NEW i \in Input
    PROVE  IF ResetMotion(m, i).fault # None
           THEN PowerInv(FALSE, InactiveRecovery, Dropped(ResetPower(p, i)),
                         ResetMotion(m, i))
           ELSE PowerInv(FALSE, InactiveRecovery, ResetPower(p, i),
                         ResetMotion(m, i))
<1> DEFINE n == ResetMotion(m, i)
           q == ResetPower(p, i)
<1>1. Safe(n)
  BY ResetMotionSafe
<1>2. /\ q \in Power /\ q.step \in {"LimitResetAssert", "GateSettle"}
      /\ q.gate => q.step = "GateSettle"
      /\ ~q.restore /\ ~q.estopReset /\ ~q.machineOn
  BY ResetPowerFacts
<1> HIDE DEF n, q
<1>3. GestureInv(InactiveRecovery) /\ InactiveRecovery.stage = "Inactive"
  BY InactiveKeepsInv DEF InactiveRecovery
<1>4. CASE n.fault # None
  <2>1. PowerInv(FALSE, InactiveRecovery, Dropped(q), n)
    BY <1>1, <1>2, <1>3, <1>4, SafeMotion, FaultKeeps
  <2> QED BY <1>4, <2>1 DEF n, q
<1>5. CASE n.fault = None
  <2>1. MotionInv(n) /\ n.phase \notin StartupPhases
    BY <1>1, SafeMotion
  <2>2. PowerInv(FALSE, InactiveRecovery, q, n)
    BY <1>2, <1>3, <1>5, <2>1
       DEF PowerInv, StepInv, OutputInv, LatchSteps, AskingSteps
  <2> QED BY <1>5, <2>2 DEF n, q
<1> QED BY <1>4, <1>5

(* Settle(), when the handlers of the cycle leave the given records.        *)
LEMMA SettleKeeps ==
    ASSUME NEW st \in BOOLEAN, NEW r, GestureInv(r), NEW p \in Power, NEW m,
           MotionInv(m), m.fault = None => PowerInv(st, r, p, m),
           Settle(r, p, m)
    PROVE  PowerInv(st, recovery', power', motion')
<1>1. CASE m.fault # None
  <2>1. Faulted(m)
    BY <1>1, MotionInvFacts
  <2>2. PowerInv(st, r, Dropped(p), m)
    BY <2>1, FaultKeeps
  <2>3. recovery' = r /\ power' = Dropped(p) /\ motion' = m
    BY <1>1 DEF Settle
  <2> QED BY <2>2, <2>3
<1>2. CASE m.fault = None
  BY <1>2 DEF Settle
<1> QED BY <1>1, <1>2

LEMMA SettleFaultKeeps ==
    ASSUME NEW st \in BOOLEAN, NEW r, GestureInv(r), NEW p \in Power, NEW m,
           MotionInv(m), NEW code \in Faults, SettleFault(r, p, m, code)
    PROVE  PowerInv(st, recovery', power', motion')
<1>1. Safe(Fail(m, code)) /\ Fail(m, code).fault # None
  BY MotionInvFacts, FailSafe DEF Faulted
<1> QED
  BY <1>1, SafeMotion, SettleKeeps DEF SettleFault

LEMMA PowerStepFacts ==
    LatchSteps \cup AskingSteps \cup {"None"} = PowerSteps
BY DEF LatchSteps, AskingSteps, PowerSteps

LEMMA AtStepFacts ==
    ASSUME NEW p \in Power, NEW s \in PowerSteps
    PROVE  /\ AtStep(p, s) \in Power /\ AtStep(p, s).step = s
           /\ AtStep(p, s).gate = p.gate /\ AtStep(p, s).restore = p.restore
           /\ AtStep(p, s).estopReset = p.estopReset
           /\ AtStep(p, s).machineOn = p.machineOn
BY TimerFacts DEF AtStep, Power

LEMMA TickedFacts ==
    ASSUME NEW p \in Power
    PROVE  /\ TickedPower(p) \in Power /\ TickedPower(p).step = p.step
           /\ TickedPower(p).gate = p.gate /\ TickedPower(p).mask = p.mask
           /\ TickedPower(p).restore = p.restore
           /\ TickedPower(p).estopReset = p.estopReset
           /\ TickedPower(p).machineOn = p.machineOn
<1> DEFINE e == Elapse(p.elapsed)
<1>1. e \in Timer
  BY TimerFacts DEF Power
<1>2. TickedPower(p) \in {p, [p EXCEPT !.elapsed = e]}
  BY DEF TickedPower
<1> HIDE DEF e
<1> QED BY <1>1, <1>2 DEF Power

LEMMA TickedKeeps ==
    ASSUME NEW st, NEW r, NEW p, NEW m, PowerInv(st, r, p, m)
    PROVE  PowerInv(st, r, TickedPower(p), m)
<1>1. p \in Power
  BY DEF PowerInv
<1> QED BY <1>1, TickedFacts DEF PowerInv, StepInv, OutputInv

(* The end of a recovery: nothing asked, the gesture accepted.              *)
LEMMA RecoveredKeeps ==
    ASSUME NEW st \in BOOLEAN, NEW p \in Power, ~p.restore,
           NEW m, Live(m), st => m.active = None, Recovered(p, m)
    PROVE  PowerInv(st, recovery', power', motion')
<1> DEFINE q == Unpowered(NoRequests(p))
           n == [m EXCEPT !.interp = NewInterpreter]
<1>1. /\ q \in Power /\ q.step = "None" /\ ~q.restore
      /\ ~q.estopReset /\ ~q.machineOn
  BY PowerStepFacts DEF Unpowered, NoRequests, Power
<1>2. Live(n) /\ n.active = m.active
  BY InterpreterFacts DEF Live, Motion
<1>3. Settle(InactiveRecovery, q, n)
  BY DEF Recovered
<1> HIDE DEF q, n
<1>4. GestureInv(InactiveRecovery) /\ InactiveRecovery.stage = "Inactive"
  BY InactiveKeepsInv DEF InactiveRecovery
<1>5. MotionInv(n) /\ n.phase \notin StartupPhases /\ n.fault = None
  BY <1>2, PhaseSplit DEF MotionInv, Live
<1>6. PowerInv(st, InactiveRecovery, q, n)
  BY <1>1, <1>2, <1>4, <1>5
     DEF PowerInv, StepInv, OutputInv, LatchSteps, AskingSteps
<1> QED BY <1>1, <1>3, <1>4, <1>5, <1>6, SettleKeeps

(* advance_recovery() steps through reset and Machine On.                   *)
LEMMA AdvanceLimitResetKeeps ==
    ASSUME NEW st, NEW r, NEW p, NEW m, PowerInv(st, r, p, m), m.fault = None,
           NEW i \in Input, AdvanceLimitReset(r, p, m, i)
    PROVE  PowerInv(st, recovery', power', motion')
<1>1. /\ st \in BOOLEAN /\ GestureInv(r) /\ p \in Power /\ MotionInv(m)
      /\ p.step \in {"LimitResetAssert", "LimitResetValidate"}
      /\ p.step \in LatchSteps
  BY DEF PowerInv, AdvanceLimitReset, LatchSteps
<1>2. Live(m) /\ m.phase \notin StartupPhases
  BY <1>1, MotionInvFacts DEF PowerInv
<1>3. /\ r.stage = "Inactive" /\ ~p.gate /\ ~p.restore
      /\ ~p.estopReset /\ ~p.machineOn
  BY <1>1, <1>2, StartupPhaseFacts
     DEF PowerInv, StepInv, OutputInv, LatchSteps, AskingSteps
<1>4. CASE Settle(r, p, m)
  BY <1>1, <1>4, SettleKeeps
<1>5. CASE SettleFault(r, p, m, "LimitLatchResetTimedOut")
  BY <1>1, <1>5, SettleFaultKeeps DEF Faults
<1>6. CASE Settle(r, [AtStep(p, "LimitResetValidate") EXCEPT !.mask = p.mask],
                  [m EXCEPT !.limitReset = {}])
  <2> DEFINE a == AtStep(p, "LimitResetValidate")
             q == [a EXCEPT !.mask = p.mask]
             n == [m EXCEPT !.limitReset = {}]
  <2>1. /\ a \in Power /\ a.step = "LimitResetValidate"
        /\ ~a.gate /\ ~a.restore /\ ~a.estopReset /\ ~a.machineOn
    BY <1>1, <1>3, AtStepFacts, PowerStepFacts DEF LatchSteps
  <2> HIDE DEF a
  <2>2. /\ q \in Power /\ q.step = "LimitResetValidate"
        /\ ~q.gate /\ ~q.restore /\ ~q.estopReset /\ ~q.machineOn
    BY <1>1, <2>1 DEF Power
  <2>3. /\ Live(n) /\ n.active = m.active
    BY <1>2 DEF Live, Motion
  <2>4. Settle(r, q, n)
    BY <1>6 DEF a
  <2> HIDE DEF q, n
  <2>5. MotionInv(n) /\ n.phase \notin StartupPhases /\ n.fault = None
    BY <2>3, PhaseSplit DEF MotionInv, Live
  <2>6. PowerInv(st, r, q, n)
    BY <1>1, <1>3, <2>2, <2>3, <2>5
       DEF PowerInv, StepInv, OutputInv, LatchSteps, AskingSteps
  <2> QED BY <1>1, <2>2, <2>4, <2>5, <2>6, SettleKeeps
<1>7. CASE Settle(r, Opened(AtStep(p, "GateSettle")), m)
  <2> DEFINE a == AtStep(p, "GateSettle")
             q == Opened(a)
  <2>1. /\ a \in Power /\ a.step = "GateSettle"
        /\ ~a.restore /\ ~a.estopReset /\ ~a.machineOn
    BY <1>1, <1>3, AtStepFacts, PowerStepFacts DEF AskingSteps
  <2> HIDE DEF a
  <2>2. /\ q \in Power /\ q.step = "GateSettle"
        /\ ~q.restore /\ ~q.estopReset /\ ~q.machineOn
    BY <2>1 DEF Opened, Power
  <2>3. Settle(r, q, m)
    BY <1>7 DEF a
  <2> HIDE DEF q
  <2>4. PowerInv(st, r, q, m)
    BY <1>1, <1>2, <1>3, <2>2
       DEF PowerInv, StepInv, OutputInv, LatchSteps, AskingSteps
  <2> QED BY <1>1, <2>2, <2>3, <2>4, SettleKeeps
<1> QED
  BY <1>4, <1>5, <1>6, <1>7 DEF AdvanceLimitReset

LEMMA AdvanceRequestsKeeps ==
    ASSUME NEW st, NEW r, NEW p, NEW m, PowerInv(st, r, p, m), m.fault = None,
           NEW i \in Input, AdvanceRequests(r, p, m, i)
    PROVE  PowerInv(st, recovery', power', motion')
<1>1. /\ st \in BOOLEAN /\ GestureInv(r) /\ p \in Power /\ MotionInv(m)
      /\ p.step \in AskingSteps
  BY DEF PowerInv, AdvanceRequests, AskingSteps
<1>2. Live(m) /\ m.phase \notin StartupPhases
  BY <1>1, MotionInvFacts DEF PowerInv, AskingSteps
<1>3. /\ r.stage \in {"Inactive", "CompletePending"}
      /\ p.restore => r.stage = "CompletePending"
      /\ st => m.active = None
  BY <1>1 DEF PowerInv, StepInv
<1>4. CASE Settle(r, p, m)
  BY <1>1, <1>4, SettleKeeps
<1>5. CASE Settle(r, [AtStep(p, "WaitReset") EXCEPT !.estopReset = TRUE,
                                                   !.machineOn = FALSE], m)
  <2> DEFINE a == AtStep(p, "WaitReset")
             q == [a EXCEPT !.estopReset = TRUE, !.machineOn = FALSE]
  <2>1. /\ a \in Power /\ a.step = "WaitReset" /\ a.restore = p.restore
    BY <1>1, AtStepFacts, PowerStepFacts DEF AskingSteps
  <2> HIDE DEF a
  <2>2. /\ q \in Power /\ q.step = "WaitReset" /\ q.restore = p.restore
        /\ ~q.machineOn
    BY <2>1 DEF Power
  <2>3. Settle(r, q, m)
    BY <1>5 DEF a
  <2> HIDE DEF q
  <2>4. PowerInv(st, r, q, m)
    BY <1>1, <1>2, <1>3, <2>2
       DEF PowerInv, StepInv, OutputInv, LatchSteps, AskingSteps
  <2> QED BY <1>1, <2>2, <2>3, <2>4, SettleKeeps
<1>6. CASE /\ p.restore
           /\ Settle(r, [AtStep(p, "WaitOn") EXCEPT !.estopReset = FALSE,
                                                    !.machineOn = TRUE], m)
  <2> DEFINE a == AtStep(p, "WaitOn")
             q == [a EXCEPT !.estopReset = FALSE, !.machineOn = TRUE]
  <2>1. /\ a \in Power /\ a.step = "WaitOn" /\ a.restore
    BY <1>1, <1>6, AtStepFacts, PowerStepFacts DEF AskingSteps
  <2> HIDE DEF a
  <2>2. /\ q \in Power /\ q.step = "WaitOn" /\ q.restore /\ ~q.estopReset
    BY <2>1 DEF Power
  <2>3. Settle(r, q, m)
    BY <1>6 DEF a
  <2> HIDE DEF q
  <2>4. PowerInv(st, r, q, m)
    BY <1>1, <1>2, <1>3, <1>6, <2>2
       DEF PowerInv, StepInv, OutputInv, LatchSteps, AskingSteps
  <2> QED BY <1>1, <2>2, <2>3, <2>4, SettleKeeps
<1>7. CASE ~p.restore /\ Recovered(p, m)
  BY <1>1, <1>2, <1>3, <1>7, RecoveredKeeps
<1>8. CASE Recovered([p EXCEPT !.restore = FALSE], m)
  <2> DEFINE q == [p EXCEPT !.restore = FALSE]
  <2>1. q \in Power /\ ~q.restore
    BY <1>1 DEF Power
  <2> HIDE DEF q
  <2>2. Recovered(q, m)
    BY <1>8 DEF q
  <2> QED BY <1>1, <1>2, <1>3, <2>1, <2>2, RecoveredKeeps
<1> QED
  BY <1>4, <1>5, <1>6, <1>7, <1>8 DEF AdvanceRequests

LEMMA AdvanceRecoveryKeeps ==
    ASSUME NEW st, NEW r, NEW p, NEW m, PowerInv(st, r, p, m), m.fault = None,
           NEW i \in Input, AdvanceRecovery(r, p, m, i)
    PROVE  PowerInv(st, recovery', power', motion')
<1>1. CASE SettleFault(r, p, m, "LimitDuringRecovery")
  <2>1. st \in BOOLEAN /\ GestureInv(r) /\ p \in Power /\ MotionInv(m)
    BY DEF PowerInv
  <2> QED BY <1>1, <2>1, SettleFaultKeeps DEF Faults
<1>2. CASE \/ AdvanceLimitReset(r, TickedPower(p), m, i)
           \/ AdvanceRequests(r, TickedPower(p), m, i)
  BY <1>2, TickedKeeps, AdvanceLimitResetKeeps, AdvanceRequestsKeeps
<1> QED BY <1>1, <1>2 DEF AdvanceRecovery

(* begin_update: neither the mode switch nor the clock disturbs any of it.  *)
LEMMA SetModeFacts ==
    ASSUME NEW m, MotionInv(m), NEW b \in BOOLEAN
    PROVE  /\ MotionInv(SetPendantMode(m, b))
           /\ SetPendantMode(m, b).fault = m.fault
           /\ m.active = None => SetPendantMode(m, b).active = None
           /\ m.phase \notin StartupPhases =>
                  SetPendantMode(m, b).phase \notin StartupPhases
           /\ m.phase \in StartupPhases =>
                  SetPendantMode(m, b).phase = m.phase
<1> DEFINE c == [m EXCEPT !.mode = b, !.interp = NewInterpreter,
                          !.pending = None]
           d == [c EXCEPT !.pending = None]
<1>0. m \in Motion
  BY MotionInvFacts
<1>1. /\ c \in Motion /\ c.phase = m.phase /\ c.active = m.active
      /\ c.fault = m.fault /\ c.collision = m.collision
      /\ c.limitReset = m.limitReset /\ c.pending = None
  BY <1>0, InterpreterFacts DEF Motion
<1>2. SetPendantMode(m, b) \in {m, c, CancelPendantMotion(c)}
  BY DEF SetPendantMode
<1>3. m.active = None => CancelPendantMotion(c) = d
  BY <1>1 DEF CancelPendantMotion
<1> HIDE DEF c
<1>4. /\ d \in Motion /\ d.phase = m.phase /\ d.active = m.active
      /\ d.fault = m.fault /\ d.collision = m.collision
      /\ d.limitReset = m.limitReset /\ d.pending = None
  BY <1>1 DEF Motion
<1> HIDE DEF d
<1>5. MotionInv(c) /\ MotionInv(d)
  BY <1>1, <1>4 DEF MotionInv, Live, Starting, Faulted, Inert
<1>6. CASE m.active = None
  BY <1>1, <1>2, <1>3, <1>4, <1>5, <1>6
<1>7. CASE m.active # None
  <2>1. Live(m)
    BY <1>7 DEF MotionInv, Starting, Faulted, Inert
  <2>2. Live(c)
    BY <1>1, <2>1 DEF Live
  <2>3. Live(CancelPendantMotion(c))
    BY <2>2, CancelLive
  <2> QED
    BY <1>2, <2>1, <2>2, <2>3, <1>7, PhaseSplit DEF Live, MotionInv
<1> QED BY <1>6, <1>7

LEMMA BeginCycleFacts ==
    ASSUME NEW m, MotionInv(m), NEW i \in Input
    PROVE  /\ MotionInv(BeginCycle(m, i))
           /\ BeginCycle(m, i).fault = m.fault
           /\ m.active = None => BeginCycle(m, i).active = None
           /\ m.phase \notin StartupPhases =>
                  BeginCycle(m, i).phase \notin StartupPhases
           /\ m.phase \in StartupPhases => BeginCycle(m, i).phase = m.phase
<1> DEFINE e == Elapse(m.phaseElapsed)
           k == IF m.phase \in ClockedPhases
                THEN [m EXCEPT !.phaseElapsed = e] ELSE m
           c == [k EXCEPT !.command = None]
<1>1. m \in Motion /\ e \in Timer
  BY MotionInvFacts, TimerFacts DEF Motion
<1>2. BeginCycle(m, i) = SetPendantMode(c, i.mode)
  BY DEF BeginCycle
<1> HIDE DEF e
<1>3. /\ k \in Motion /\ k.phase = m.phase /\ k.active = m.active
      /\ k.fault = m.fault /\ k.collision = m.collision
      /\ k.limitReset = m.limitReset /\ k.pending = m.pending
  BY <1>1 DEF Motion
<1> HIDE DEF k
<1>4. /\ c \in Motion /\ c.phase = m.phase /\ c.active = m.active
      /\ c.fault = m.fault /\ c.collision = m.collision
      /\ c.limitReset = m.limitReset /\ c.pending = m.pending
  BY <1>3 DEF Motion
<1> HIDE DEF c
<1>5. MotionInv(c)
  BY <1>4 DEF MotionInv, Live, Starting, Faulted, Inert
<1>6. i.mode \in BOOLEAN
  BY DEF Input
<1> QED BY <1>2, <1>4, <1>5, <1>6, SetModeFacts

LEMMA BeginCycleKeeps ==
    ASSUME NEW st, NEW r, NEW p, NEW m, PowerInv(st, r, p, m), NEW i \in Input
    PROVE  PowerInv(st, r, p, BeginCycle(m, i))
<1> DEFINE n == BeginCycle(m, i)
<1>1. MotionInv(m)
  BY DEF PowerInv
<1>2. /\ MotionInv(n) /\ n.fault = m.fault
      /\ m.active = None => n.active = None
      /\ m.phase \notin StartupPhases => n.phase \notin StartupPhases
      /\ m.phase \in StartupPhases => n.phase = m.phase
  BY <1>1, BeginCycleFacts
<1> HIDE DEF n
<1>3. PowerInv(st, r, p, n)
  BY <1>2, StartupPhaseFacts DEF PowerInv, StepInv, OutputInv
<1> QED BY <1>3 DEF n

(* check_startup_limits(): from a motion that has not started anything.     *)
LEMMA StartupMotionFacts ==
    ASSUME NEW m, MotionInv(m), m.fault = None,
           startup => m.active = None /\ m.phase \notin StartupPhases,
           NEW i \in Input
    PROVE  /\ MotionInv(StartupMotion(m, i))
           /\ ~startup => StartupMotion(m, i) = m
<1> DEFINE c == [m EXCEPT !.active = None, !.pending = None,
                          !.bounceStarted = FALSE, !.collision = SingleOf(i.raw)]
<1>1. m \in Motion
  BY MotionInvFacts
<1>2. /\ Safe(Fail(m, "StartupLimitMismatch"))
      /\ Safe(Fail(m, "StartupLimitDuringHoming"))
  BY <1>1, FailSafe DEF Faults
<1>3. c \in Motion /\ c.active = None /\ c.fault = None
  <2>1. SingleOf(i.raw) \in Motors \cup {None}
    BY SingleType DEF Input
  <2> QED BY <1>1, <2>1, ZenonT(30) DEF Motion
<1> HIDE DEF c
<1>4. Starting(To(c, "StartupGateSettle"))
  BY <1>3, ToType, StartupPhaseFacts, PhaseFacts DEF Starting
<1>5. startup => Starting(To(m, "StartupReadyGateSettle"))
  BY <1>1, ToType, StartupPhaseFacts, PhaseFacts DEF Starting
<1> QED
  BY <1>2, <1>4, <1>5, SafeMotion DEF StartupMotion, MotionInv, c

(* A cycle of the startup, with nothing else asked.                         *)
StartupPowerInv(p, m) ==
    /\ p \in Power /\ p.step = "None" /\ ~p.restore
    /\ m.fault = None => OutputInv(InactiveRecovery, p, m)

LEMMA StartupSettleKeeps ==
    ASSUME GestureInv(recovery), recovery.stage = "Inactive", NEW p, NEW m,
           MotionInv(m), StartupPowerInv(p, m), SettleStartup(p, m)
    PROVE  PowerInv(FALSE, recovery', power', motion')
<1>1. m.fault = None => OutputInv(recovery, p, m)
  BY DEF StartupPowerInv, OutputInv, InactiveRecovery
<1>2. m.fault = None => PowerInv(FALSE, recovery, p, m)
  BY <1>1
     DEF PowerInv, StepInv, StartupPowerInv, LatchSteps, AskingSteps
<1> QED
  BY <1>2, SettleKeeps DEF SettleStartup, StartupPowerInv

LEMMA NoRequestsFacts ==
    ASSUME NEW p \in Power
    PROVE  /\ NoRequests(p) \in Power /\ NoRequests(p).step = p.step
           /\ NoRequests(p).restore = p.restore /\ NoRequests(p).gate = p.gate
           /\ ~NoRequests(p).estopReset /\ ~NoRequests(p).machineOn
BY DEF NoRequests, Power

LEMMA StartingTo ==
    ASSUME NEW m, Starting(m), NEW ph \in StartupPhases
    PROVE  /\ Starting(To(m, ph)) /\ To(m, ph).phase = ph
           /\ MotionInv(To(m, ph)) /\ To(m, ph).fault = None
BY ToType, PhaseFacts DEF Starting, MotionInv

(* Each request of the startup is made on entering the phase that owns it.  *)
LEMMA AskResetKeeps ==
    ASSUME GestureInv(recovery), recovery.stage = "Inactive", NEW p, NEW m,
           Starting(m), StartupPowerInv(p, m),
           m.phase \in {"StartupReadyGateSettle", "StartupGateSettle"},
           NEW ph \in {"StartupReadyWaitReset", "StartupWaitReset"},
           AskReset(p, m, ph)
    PROVE  PowerInv(FALSE, recovery', power', motion')
<1> DEFINE q == [p EXCEPT !.estopReset = TRUE]
           n == To(m, ph)
<1>1. Starting(n) /\ MotionInv(n) /\ n.phase = ph /\ n.fault = None
  BY StartingTo, StartupPhaseFacts
<1>2. ~p.machineOn /\ p \in Power /\ p.step = "None" /\ ~p.restore
  BY DEF StartupPowerInv, OutputInv, Starting
<1>3. /\ q \in Power /\ q.step = "None" /\ ~q.restore
      /\ q.estopReset /\ ~q.machineOn /\ q.gate = p.gate
  BY <1>2 DEF Power
<1>4. SettleStartup(q, n)
  BY DEF AskReset
<1> HIDE DEF q, n
<1>5. StartupPowerInv(q, n)
  BY <1>1, <1>3 DEF StartupPowerInv, OutputInv, InactiveRecovery
<1> QED BY <1>1, <1>4, <1>5, StartupSettleKeeps

LEMMA AskMachineOnKeeps ==
    ASSUME GestureInv(recovery), recovery.stage = "Inactive", NEW p, NEW m,
           Starting(m), StartupPowerInv(p, m),
           NEW ph \in {"StartupReadyWaitOn", "StartupWaitOn"},
           AskMachineOn(p, m, ph)
    PROVE  PowerInv(FALSE, recovery', power', motion')
<1> DEFINE q == [p EXCEPT !.estopReset = FALSE, !.machineOn = TRUE]
           n == To(m, ph)
<1>1. Starting(n) /\ MotionInv(n) /\ n.phase = ph /\ n.fault = None
  BY StartingTo, StartupPhaseFacts
<1>2. p \in Power /\ p.step = "None" /\ ~p.restore
  BY DEF StartupPowerInv
<1>3. /\ q \in Power /\ q.step = "None" /\ ~q.restore
      /\ ~q.estopReset /\ q.machineOn
  BY <1>2 DEF Power
<1>4. SettleStartup(q, n)
  BY DEF AskMachineOn
<1> HIDE DEF q, n
<1>5. StartupPowerInv(q, n)
  BY <1>1, <1>3 DEF StartupPowerInv, OutputInv, InactiveRecovery
<1> QED BY <1>1, <1>4, <1>5, StartupSettleKeeps

(* Without requests, any motion may follow the startup.                     *)
LEMMA QuietStartup ==
    ASSUME NEW p, NEW m, StartupPowerInv(p, m), m.fault = None, NEW n
    PROVE  StartupPowerInv(NoRequests(p), n)
BY NoRequestsFacts DEF StartupPowerInv, OutputInv

(* A fault of the startup drops the power state itself.                     *)
LEMMA StartupFaultKeeps ==
    ASSUME GestureInv(recovery), recovery.stage = "Inactive", NEW p, NEW m,
           Starting(m), StartupPowerInv(p, m), NEW code \in Faults,
           SettleStartup(p, Fail(m, code))
    PROVE  PowerInv(FALSE, recovery', power', motion')
<1>1. MotionInv(Fail(m, code)) /\ Fail(m, code).fault # None
  BY FailSafe, SafeMotion DEF Starting
<1>2. StartupPowerInv(p, Fail(m, code))
  BY <1>1 DEF StartupPowerInv
<1> QED BY <1>1, <1>2, StartupSettleKeeps

LEMMA FinishStartupKeeps ==
    ASSUME GestureInv(recovery), recovery.stage = "Inactive", NEW p, NEW m,
           Starting(m), StartupPowerInv(p, m), FinishStartupPower(p, m)
    PROVE  PowerInv(FALSE, recovery', power', motion')
<1> DEFINE t == To(m, "Idle")
           n == [t EXCEPT !.interp = NewInterpreter]
<1>1. Live(t)
  BY ToType, PhaseFacts, ZenonT(30) DEF Live, Starting
<1>2. SettleStartup(NoRequests(p), n)
  BY DEF FinishStartupPower
<1> HIDE DEF t
<1>3. Live(n)
  BY <1>1, InterpreterFacts DEF Live, Motion
<1> HIDE DEF n
<1>4. StartupPowerInv(NoRequests(p), n)
  BY QuietStartup DEF Starting
<1> QED BY <1>2, <1>3, <1>4, StartupSettleKeeps DEF MotionInv

LEMMA AdvanceStartupPowerKeeps ==
    ASSUME GestureInv(recovery), recovery.stage = "Inactive", NEW p, NEW m,
           Starting(m), StartupPowerInv(p, m), NEW i \in Input,
           m.phase \in StartupPowerPhases, AdvanceStartupPower(p, m, i)
    PROVE  PowerInv(FALSE, recovery', power', motion')
<1>1. CASE \/ SettleStartup(p, Fail(m, "LimitDuringStartupReset"))
           \/ SettleStartup(p, Fail(m, "HomingDuringStartupReset"))
  BY <1>1, StartupFaultKeeps DEF Faults
<1>2. CASE /\ m.phase = "StartupReadyGateSettle"
           /\ AskReset(p, m, "StartupReadyWaitReset")
  BY <1>2, AskResetKeeps
<1>3. CASE FinishStartupPower(p, m)
  BY <1>3, FinishStartupKeeps
<1>4. CASE AskMachineOn(p, m, "StartupReadyWaitOn")
  BY <1>4, AskMachineOnKeeps
<1>5. CASE SettleStartup(p, m)
  BY <1>5, StartupSettleKeeps DEF MotionInv
<1> QED
  BY <1>1, <1>2, <1>3, <1>4, <1>5 DEF AdvanceStartupPower

LEMMA AdvanceStartupBounceKeeps ==
    ASSUME GestureInv(recovery), recovery.stage = "Inactive", NEW p, NEW m,
           Starting(m), StartupPowerInv(p, m), NEW i \in Input,
           AdvanceStartupBounce(p, m, i)
    PROVE  PowerInv(FALSE, recovery', power', motion')
<1> DEFINE q == [p EXCEPT
            !.estopReset = p.estopReset /\ m.phase # "StartupWaitReset",
            !.machineOn = p.machineOn /\ m.phase # "StartupWaitOn"]
<1>1. CASE SettleStartup(p, Fail(m, "BounceLostLimitAttribution"))
  BY <1>1, StartupFaultKeeps DEF Faults
<1>2. CASE SettleStartup(p, m)
  BY <1>2, StartupSettleKeeps DEF MotionInv
<1>3. CASE /\ m.phase = "StartupGateSettle"
           /\ AskReset(p, m, "StartupWaitReset")
  BY <1>3, AskResetKeeps
<1>4. CASE AskMachineOn(p, m, "StartupWaitOn")
  BY <1>4, AskMachineOnKeeps
<1>5. CASE SettleStartup(q, m)
  <2>1. /\ p \in Power /\ p.step = "None" /\ ~p.restore
    BY DEF StartupPowerInv
  <2>2. /\ (p.estopReset /\ m.phase # "StartupWaitReset") \in BOOLEAN
        /\ (p.machineOn /\ m.phase # "StartupWaitOn") \in BOOLEAN
    OBVIOUS
  <2>3. /\ q \in Power /\ q.step = "None" /\ ~q.restore
        /\ q.estopReset => p.estopReset
        /\ q.machineOn => p.machineOn
        /\ q.gate = p.gate
    BY <2>1, <2>2 DEF Power
  <2> HIDE DEF q
  <2>4. StartupPowerInv(q, m)
    BY <2>3 DEF StartupPowerInv, OutputInv
  <2> QED BY <1>5, <2>4, StartupSettleKeeps DEF MotionInv
<1>6. CASE /\ i.path # None
           /\ SettleStartup(NoRequests(p), StartBounceMove(m, i.path, i))
  <2>1. i.path \in Paths
    BY <1>6 DEF Input
  <2>2. MotionInv(StartBounceMove(m, i.path, i))
    BY <2>1, StartBounceMoveSafe, SafeMotion DEF Starting, MotionInv
  <2>3. StartupPowerInv(NoRequests(p), StartBounceMove(m, i.path, i))
    BY QuietStartup DEF Starting
  <2> QED BY <1>6, <2>2, <2>3, StartupSettleKeeps
<1> QED
  BY <1>1, <1>2, <1>3, <1>4, <1>5, <1>6 DEF AdvanceStartupBounce
-----------------------------------------------------------------------------
(* The actions                                                              *)

(* The jog branch and the startup, once nothing else owns the cycle.        *)
LEMMA OperateKeeps ==
    ASSUME NEW m, PowerInv(startup, recovery, power, m), NEW i \in Input,
           Operate(m, i)
    PROVE  PowerInv(startup', recovery', power', motion')
<1> DEFINE s == StartupMotion(m, i)
           p == Opened(StartupPower)
<1>1. /\ startup \in BOOLEAN /\ GestureInv(recovery) /\ power \in Power
      /\ MotionInv(m) /\ m.fault = None
      /\ power.step = "None" /\ recovery.stage = "Inactive"
      /\ startup => m.active = None /\ m.phase \notin StartupPhases
      /\ startup' = FALSE
  BY DEF PowerInv, Operate, Running, Operable, RecoveryActive
<1>2. MotionInv(s) /\ (~startup => s = m)
  BY <1>1, StartupMotionFacts
<1>3. ~power.restore
  BY <1>1 DEF PowerInv, StepInv, AskingSteps
<1>4. /\ p \in Power /\ p.step = "None" /\ ~p.restore
      /\ startup => ~p.estopReset /\ ~p.machineOn
      /\ ~startup => p.estopReset = power.estopReset
                     /\ p.machineOn = power.machineOn
  <2> DEFINE o == StartupPower
  <2>1. /\ o \in Power /\ o.step = "None" /\ ~o.restore
        /\ startup => ~o.estopReset /\ ~o.machineOn
        /\ ~startup => o = power
    BY <1>1, <1>3, NoRequestsFacts DEF StartupPower
  <2> HIDE DEF o
  <2>2. p = Opened(o)
    BY DEF o
  <2> QED BY <2>1, <2>2 DEF Opened, Power
<1>5. OutputInv(recovery, power, m)
  BY DEF PowerInv
<1> HIDE DEF s, p
<1>6. s.fault = None => OutputInv(InactiveRecovery, p, s)
  BY <1>1, <1>2, <1>4, <1>5 DEF OutputInv, InactiveRecovery
<1>7. StartupPowerInv(p, s)
  BY <1>4, <1>6 DEF StartupPowerInv
<1>8. CASE s.fault # None /\ Settle(recovery, power, s)
  BY <1>1, <1>2, <1>8, SettleKeeps
<1>9. CASE /\ s.fault = None /\ s.phase \in StartupPowerPhases
           /\ AdvanceStartupPower(p, s, i)
  <2>1. Starting(s)
    BY <1>2, <1>9, MotionInvFacts DEF StartupPhases
  <2> QED BY <1>1, <1>7, <1>9, <2>1, AdvanceStartupPowerKeeps
<1>10. CASE /\ s.fault = None /\ s.phase \in StartupBouncePhases
            /\ IF CheckLimits(s, i).fault # None
               THEN Settle(recovery, p, CheckLimits(s, i))
               ELSE AdvanceStartupBounce(p, CheckLimits(s, i), i)
  <2>1. Starting(s)
    BY <1>2, <1>10, MotionInvFacts DEF StartupPhases
  <2>2. CheckLimits(s, i) \in {s, Fail(s, "BounceLostLimitAttribution")}
    BY <1>10 DEF CheckLimits, BouncePhases
  <2>3. /\ MotionInv(Fail(s, "BounceLostLimitAttribution"))
        /\ Fail(s, "BounceLostLimitAttribution").fault # None
    BY <2>1, FailSafe, SafeMotion DEF Starting, Faults
  <2>4. CASE CheckLimits(s, i) = s
    BY <1>1, <1>7, <1>10, <2>1, <2>4, AdvanceStartupBounceKeeps DEF Starting
  <2>5. CASE CheckLimits(s, i) = Fail(s, "BounceLostLimitAttribution")
    BY <1>1, <1>4, <1>10, <2>3, <2>5, SettleKeeps
  <2> QED BY <2>2, <2>4, <2>5
<1>11. CASE /\ s.fault = None /\ s.phase \notin StartupPhases
            /\ Settle(recovery, p, RunMotion(s, i))
  <2>1. MotionInv(RunMotion(s, i)) /\ RunMotion(s, i).phase \notin StartupPhases
    BY <1>2, <1>11, MotionInvFacts, RunMotionSafe, SafeMotion
  <2>2. ~p.estopReset /\ ~p.machineOn
    BY <1>4, <1>6, <1>11, StartupPhaseFacts DEF OutputInv
  <2>3. StartupPowerInv(p, RunMotion(s, i))
    BY <1>4, <2>2 DEF StartupPowerInv, OutputInv, InactiveRecovery
  <2> QED
    BY <1>1, <1>11, <2>1, <2>3, StartupSettleKeeps DEF SettleStartup
<1> QED
  BY <1>1, <1>8, <1>9, <1>10, <1>11 DEF Operate, StartupPhases, s, p

LEMMA HoldEstopKeeps ==
    ASSUME NEW m, PowerInv(startup, recovery, power, m), NEW i \in Input,
           HoldEstop(m, i)
    PROVE  PowerInv(startup', recovery', power', motion')
<1>1. /\ startup \in BOOLEAN /\ power \in Power /\ m \in Motion
      /\ m.fault = None
  BY MotionInvFacts DEF PowerInv, HoldEstop, Operable
<1>2. i.packet # None => i.packet \in Sample
  BY DEF Input
<1> QED
  BY <1>1, <1>2, EngageKeeps, ClosedKeeps DEF HoldEstop

LEMMA BeginResetKeeps ==
    ASSUME NEW p \in Power, NEW m \in Motion, m.fault = None, NEW i \in Input,
           BeginLinuxcncEstopReset(p, m, i)
    PROVE  PowerInv(startup', recovery', power', motion')
<1>1. CASE ResetMotion(m, i).fault # None
  BY <1>1, ResetKeeps DEF BeginLinuxcncEstopReset, Settle
<1>2. CASE ResetMotion(m, i).fault = None
  BY <1>2, ResetKeeps DEF BeginLinuxcncEstopReset, Settle
<1> QED BY <1>1, <1>2

LEMMA AcceptAxisResetKeeps ==
    ASSUME NEW m, PowerInv(startup, recovery, power, m), NEW i \in Input,
           AcceptAxisReset(m, i)
    PROVE  PowerInv(startup', recovery', power', motion')
<1>1. power \in Power /\ m \in Motion /\ m.fault = None
  BY MotionInvFacts DEF PowerInv, AcceptAxisReset, Operable
<1>2. CASE ResetMotion(m, i).fault # None
  BY <1>1, <1>2, BeginResetKeeps DEF AcceptAxisReset
<1>3. CASE ResetMotion(m, i).fault = None
  <2>1. PowerInv(FALSE, InactiveRecovery, ResetPower(power, i),
                 ResetMotion(m, i))
    BY <1>1, <1>3, ResetKeeps
  <2>2. /\ startup' = FALSE
        /\ AdvanceRecovery(InactiveRecovery, ResetPower(power, i),
                           ResetMotion(m, i), i)
    BY <1>3 DEF AcceptAxisReset
  <2> QED BY <1>3, <2>1, <2>2, AdvanceRecoveryKeeps
<1> QED BY <1>2, <1>3

LEMMA PowerStepKeeps ==
    ASSUME NEW m, PowerInv(startup, recovery, power, m), NEW i \in Input,
           PowerStep(m, i)
    PROVE  PowerInv(startup', recovery', power', motion')
<1>1. /\ startup \in BOOLEAN /\ GestureInv(recovery)
      /\ power \in Power /\ m \in Motion /\ m.fault = None /\ MotionInv(m)
  BY MotionInvFacts DEF PowerInv, PowerStep, Operable
<1>2. CASE BeginLinuxcncEstopReset(power, m, i)
  BY <1>1, <1>2, BeginResetKeeps
<1>3. CASE Settle(recovery, Closed(power), m) /\ UNCHANGED startup
  <2>1. PowerInv(startup, recovery, Closed(power), m)
    BY ClosedKeeps
  <2>2. Closed(power) \in Power
    BY <2>1 DEF PowerInv
  <2> QED BY <1>1, <1>3, <2>1, <2>2, SettleKeeps
<1>4. CASE AdvanceRecovery(recovery, power, m, i) /\ UNCHANGED startup
  BY <1>1, <1>4, AdvanceRecoveryKeeps
<1> QED BY <1>2, <1>3, <1>4 DEF PowerStep

LEMMA FollowGestureKeeps ==
    ASSUME NEW m, PowerInv(startup, recovery, power, m), NEW i \in Input,
           FollowGesture(m, i)
    PROVE  PowerInv(startup', recovery', power', motion')
<1>1. /\ startup \in BOOLEAN /\ GestureInv(recovery) /\ power \in Power
      /\ MotionInv(m) /\ m.fault = None /\ power.step = "None"
      /\ recovery.stage \notin {"Inactive", "CompletePending"}
      /\ m.phase \notin StartupPhases /\ startup' = startup
      /\ startup => m.active = None
  BY DEF PowerInv, StepInv, FollowGesture, Operable, RecoveryActive
<1>2. ~power.restore /\ ~power.estopReset /\ ~power.machineOn
  BY <1>1, StartupPhaseFacts DEF PowerInv, StepInv, OutputInv, AskingSteps
<1> DEFINE c == Closed(power)
<1>3. /\ c \in Power /\ c.step = "None" /\ ~c.restore /\ ~c.gate
      /\ ~c.estopReset /\ ~c.machineOn
  BY <1>1, <1>2 DEF Closed, Power
<1> HIDE DEF c
(* Any stage but the last may be held behind a closed gate.                 *)
<1>4. ASSUME NEW g, GestureInv(g), g.stage # "CompletePending",
             Settle(g, c, m)
      PROVE  PowerInv(startup', recovery', power', motion')
  <2>1. PowerInv(startup, g, c, m)
    BY <1>1, <1>3, <1>4
       DEF PowerInv, StepInv, OutputInv, LatchSteps, AskingSteps
  <2> QED BY <1>1, <1>3, <1>4, <2>1, SettleKeeps
<1>5. CASE i.packet = None
  BY <1>1, <1>4, <1>5 DEF FollowGesture, c
<1>6. CASE i.packet # None /\ ~UnlockRequested(recovery, i.packet)
  <2>1. i.packet \in Sample
    BY <1>6 DEF Input
  <2>2. GestureInv(Processed(recovery, i.packet))
    BY <1>1, <2>1, ProcessedKeepsInv
  <2>3. Processed(recovery, i.packet).stage # "CompletePending"
    BY <1>1, <1>6 DEF UnlockRequested
  <2> QED BY <1>4, <1>6, <2>2, <2>3 DEF FollowGesture, c
<1>7. CASE /\ i.packet # None /\ UnlockRequested(recovery, i.packet)
           /\ UnlockBlocked(i)
  <2>1. GestureInv(Restarted(i.packet))
    BY <1>7, ResetsKeepInv DEF Input
  <2>2. Restarted(i.packet).stage = "WaitX10"
    BY DEF Restarted
  <2> QED BY <1>4, <1>7, <2>1, <2>2 DEF FollowGesture, c
<1>8. CASE /\ i.packet # None /\ UnlockRequested(recovery, i.packet)
           /\ ~UnlockBlocked(i)
  <2> DEFINE g == Processed(recovery, i.packet)
             n == NoRequests(power)
             a == AtStep(n, "GateSettle")
             q == UnlockedPower(power)
  <2>1. i.packet \in Sample
    BY <1>8 DEF Input
  <2>2. GestureInv(g) /\ g.stage = "CompletePending"
    BY <1>1, <1>8, <2>1, ProcessedKeepsInv DEF UnlockRequested
  <2>3. n \in Power /\ ~n.estopReset /\ ~n.machineOn
    BY <1>1, NoRequestsFacts
  <2>4. q = [Opened(a) EXCEPT !.restore = TRUE]
    BY DEF UnlockedPower
  <2> HIDE DEF n
  <2>5. /\ a \in Power /\ a.step = "GateSettle"
        /\ ~a.estopReset /\ ~a.machineOn
    BY <2>3, AtStepFacts, PowerStepFacts DEF AskingSteps
  <2> HIDE DEF a
  <2>6. /\ q \in Power /\ q.step = "GateSettle" /\ q.restore
        /\ ~q.estopReset /\ ~q.machineOn
    BY <2>4, <2>5 DEF Opened, Power
  <2>7. Settle(g, q, m)
    BY <1>8 DEF FollowGesture
  <2> HIDE DEF g, q
  <2>8. PowerInv(startup, g, q, m)
    BY <1>1, <2>2, <2>6
       DEF PowerInv, StepInv, OutputInv, LatchSteps, AskingSteps
  <2> QED BY <1>1, <2>2, <2>6, <2>7, <2>8, SettleKeeps
<1> QED BY <1>5, <1>6, <1>7, <1>8

LEMMA UpdateKeeps ==
    ASSUME IInv, NEW i \in Input, Update(i)
    PROVE  IInv'
<1> DEFINE m == BeginCycle(motion, i)
<1>1. PowerInv(startup, recovery, power, m)
  BY BeginCycleKeeps DEF IInv
<1>2. link' \in BOOLEAN
  BY DEF IInv, Update
<1>3. ready' \in BOOLEAN
  BY DEF Update, ControlReady
<1>4. PowerInv(startup', recovery', power', motion')
  <2> HIDE DEF m
  <2>1. CASE HeldByFault(m) \/ AwaitLink(m)
    BY <1>1, <2>1, ClosedKeeps DEF HeldByFault, AwaitLink
  <2>2. CASE HoldEstop(m, i)
    BY <1>1, <2>2, HoldEstopKeeps
  <2>3. CASE AcceptAxisReset(m, i)
    BY <1>1, <2>3, AcceptAxisResetKeeps
  <2>4. CASE PowerStep(m, i)
    BY <1>1, <2>4, PowerStepKeeps
  <2>5. CASE FollowGesture(m, i)
    BY <1>1, <2>5, FollowGestureKeeps
  <2>6. CASE LinkFault(m, i)
    <3>1. /\ startup \in BOOLEAN /\ GestureInv(recovery) /\ power \in Power
          /\ MotionInv(m) /\ startup' = startup
      BY <1>1, <2>6 DEF PowerInv, LinkFault
    <3> QED BY <2>6, <3>1, SettleFaultKeeps DEF LinkFault, Faults
  <2>7. CASE Operate(m, i)
    BY <1>1, <2>7, OperateKeeps
  <2> QED
    BY <2>1, <2>2, <2>3, <2>4, <2>5, <2>6, <2>7 DEF Update, m
<1> QED BY <1>2, <1>3, <1>4 DEF IInv

(* clear_latched_fault() leaves a live, idle motion and a closed gate.      *)
LEMMA ClearedFacts ==
    ASSUME IInv
    PROVE  /\ Live(ClearedMotion) /\ ClearedMotion.active = None
           /\ ClearedPower \in Power /\ ClearedPower.step = "AwaitUiReset"
           /\ ~ClearedPower.gate /\ ~ClearedPower.restore
           /\ ~ClearedPower.estopReset /\ ~ClearedPower.machineOn
<1>1. motion \in Motion /\ power \in Power
  BY MotionInvFacts DEF IInv, PowerInv
<1>2. Live(ClearedMotion) /\ ClearedMotion.active = None
  <2> DEFINE t == To(motion, "Idle")
  <2>1. t \in Motion /\ t.phase = "Idle"
    BY <1>1, ToType, PhaseFacts
  <2>2. ClearedMotion =
            [t EXCEPT !.active = None, !.pending = None, !.collision = None,
                      !.bounceStarted = FALSE, !.limitReset = {},
                      !.homingWas = FALSE, !.homingElapsed = 0,
                      !.interp = NewInterpreter, !.fault = None,
                      !.command = JogStopImmediate]
    BY DEF ClearedMotion
  <2> HIDE DEF t
  <2> QED
    BY <2>1, <2>2, CommandFacts, InterpreterFacts, TimerFacts, PhaseFacts, Zenon
       DEF Live, Motion
<1>3. /\ ClearedPower \in Power /\ ClearedPower.step = "AwaitUiReset"
      /\ ~ClearedPower.gate /\ ~ClearedPower.restore
      /\ ~ClearedPower.estopReset /\ ~ClearedPower.machineOn
  <2> DEFINE n == NoRequests(power)
             c == Closed(n)
             a == AtStep(c, "AwaitUiReset")
  <2>1. n \in Power /\ ~n.estopReset /\ ~n.machineOn
    BY <1>1, NoRequestsFacts
  <2> HIDE DEF n
  <2>2. c \in Power /\ ~c.gate /\ ~c.estopReset /\ ~c.machineOn
    BY <2>1 DEF Closed, Power
  <2> HIDE DEF c
  <2>3. /\ a \in Power /\ a.step = "AwaitUiReset" /\ ~a.gate
        /\ ~a.estopReset /\ ~a.machineOn
    BY <2>2, AtStepFacts, PowerStepFacts DEF LatchSteps
  <2>4. ClearedPower = [a EXCEPT !.restore = FALSE]
    BY DEF ClearedPower, a, c, n
  <2> HIDE DEF a
  <2> QED BY <2>3, <2>4 DEF Power
<1> QED BY <1>2, <1>3

LEMMA ClearLatchedFaultKeeps ==
    ASSUME IInv, ClearLatchedFault
    PROVE  IInv'
<1>1. GestureInv(InactiveRecovery) /\ InactiveRecovery.stage = "Inactive"
  BY InactiveKeepsInv DEF InactiveRecovery
<1>2. /\ MotionInv(ClearedMotion) /\ ClearedMotion.fault = None
      /\ ClearedMotion.phase \notin StartupPhases
  BY ClearedFacts, PhaseSplit DEF MotionInv, Live
<1>3. PowerInv(FALSE, InactiveRecovery, ClearedPower, ClearedMotion)
  BY <1>1, <1>2, ClearedFacts
     DEF PowerInv, StepInv, OutputInv, LatchSteps, AskingSteps
<1> QED BY <1>3 DEF ClearLatchedFault, IInv

LEMMA ClearAndResetKeeps ==
    ASSUME IInv, NEW i \in Input, ClearAndReset(i)
    PROVE  IInv'
<1>1. /\ ClearedPower \in Power /\ ClearedMotion \in Motion
      /\ ClearedMotion.fault = None
  BY ClearedFacts DEF Live
<1>2. PowerInv(startup', recovery', power', motion')
  BY <1>1, BeginResetKeeps DEF ClearAndReset
<1> QED BY <1>2 DEF ClearAndReset, IInv

LEMMA RuntimeFaultKeeps ==
    ASSUME IInv, NEW code \in RuntimeFaults, RuntimeFault(code)
    PROVE  IInv'
<1>1. code \in Faults
  BY DEF RuntimeFaults, Faults
<1>2. PowerInv(startup, recovery', power', motion')
  BY <1>1, SettleFaultKeeps DEF RuntimeFault, IInv, PowerInv
<1> QED BY <1>2 DEF RuntimeFault, IInv

(* A probe contact only retires a jog, in the phases of a jog.              *)
LEMMA RetireKeeps ==
    ASSUME IInv, ObserveManualProbeStop
    PROVE  IInv'
<1> DEFINE n == RetireProbedJog(motion)
           c == [motion EXCEPT !.pending = None]
<1>1. PowerInv(startup, recovery, power, motion) /\ MotionInv(motion)
  BY DEF IInv, PowerInv
<1>2. n = motion \/ (Live(motion) /\ Live(n) /\ n.active = None)
  <2>1. CASE \/ motion.fault # None
             \/ motion.phase \notin {"Idle", "StoppingCancel", "StoppingReplace"}
    BY <2>1 DEF RetireProbedJog
  <2>2. CASE /\ motion.fault = None
             /\ motion.phase \in {"Idle", "StoppingCancel", "StoppingReplace"}
    <3>1. Live(motion)
      BY <1>1, <2>2, MotionInvFacts, PhaseFacts, PhaseSplit
    <3>2. Live(c) /\ c.active = motion.active
      BY <3>1 DEF Live, Motion
    <3> DEFINE k == [motion EXCEPT !.active = None, !.pending = None,
                                   !.interp = NewInterpreter]
    <3>3. Live(k) /\ k.active = None
      BY <3>1, InterpreterFacts, ZenonT(30) DEF Live, Motion
    <3>4. n \in IF motion.active = None THEN {c} ELSE {To(k, "Idle")}
      BY <2>2 DEF RetireProbedJog
    <3> HIDE DEF n, c, k
    <3>5. Live(To(k, "Idle")) /\ To(k, "Idle").active = None
      BY <3>3, ToLive, ToType, PhaseFacts DEF Live
    <3> QED BY <3>1, <3>2, <3>4, <3>5
  <2> QED BY <2>1, <2>2
<1>3. motion' = n /\ UNCHANGED <<link, startup, recovery, power, ready>>
  BY DEF ObserveManualProbeStop
<1> HIDE DEF n
<1>4. PowerInv(startup, recovery, power, n)
  <2>1. CASE n = motion
    BY <1>1, <2>1
  <2>2. CASE Live(motion) /\ Live(n) /\ n.active = None
    BY <1>1, <2>2, PhaseSplit, StartupPhaseFacts
       DEF PowerInv, StepInv, OutputInv, MotionInv, Live
  <2> QED BY <1>2, <2>1, <2>2
<1> QED BY <1>3, <1>4 DEF IInv

LEMMA InitIInv == Init => IInv
<1> SUFFICES ASSUME Init PROVE IInv
  OBVIOUS
<1>1. Live(InitMotion) /\ InitMotion.active = None /\ InitMotion.fault = None
  <2>1. InitMotion \in Motion
    BY TimerFacts, InterpreterFacts, PhaseFacts DEF InitMotion, Motion
  <2> QED BY <2>1, PhaseFacts DEF InitMotion, Live
<1>2. /\ InitPower \in Power /\ InitPower.step = "None" /\ ~InitPower.gate
      /\ ~InitPower.restore /\ ~InitPower.estopReset /\ ~InitPower.machineOn
  BY TimerFacts, PowerStepFacts DEF InitPower, Power
<1>3. GestureInv(InactiveRecovery) /\ InactiveRecovery.stage = "Inactive"
  BY InactiveKeepsInv DEF InactiveRecovery
<1>4. MotionInv(InitMotion) /\ InitMotion.phase \notin StartupPhases
  BY <1>1, PhaseSplit DEF MotionInv, Live
<1>5. PowerInv(TRUE, InactiveRecovery, InitPower, InitMotion)
  BY <1>1, <1>2, <1>3, <1>4
     DEF PowerInv, StepInv, OutputInv, LatchSteps, AskingSteps
<1> QED BY <1>5 DEF Init, IInv

LEMMA NextIInv == IInv /\ [Next]_vars => IInv'
<1> SUFFICES ASSUME IInv, [Next]_vars PROVE IInv'
  OBVIOUS
<1>1. Inputs \subseteq Input
  BY InputsAssumption
<1>2. ASSUME NEW i \in Inputs, Update(i) \/ ClearAndReset(i) PROVE IInv'
  BY <1>1, <1>2, UpdateKeeps, ClearAndResetKeeps
<1>3. ASSUME NEW code \in RuntimeFaults, RuntimeFault(code) PROVE IInv'
  BY <1>3, RuntimeFaultKeeps
<1>4. CASE ClearLatchedFault
  BY <1>4, ClearLatchedFaultKeeps
<1>5. CASE ObserveManualProbeStop
  BY <1>5, RetireKeeps
<1>6. CASE UNCHANGED vars
  BY <1>6 DEF vars, IInv
<1> QED BY <1>2, <1>3, <1>4, <1>5, <1>6 DEF Next

LEMMA IInvariance == Spec => []IInv
BY InitIInv, NextIInv, PTL DEF Spec
-----------------------------------------------------------------------------
(* controller/mod.rs: every field the handlers of update(), of the runtime  *)
(* and of a probe stop assign stays in range, the click counter included.   *)
THEOREM TypeCorrect == Spec => []TypeOK
<1>1. IInv => TypeOK
  BY MotionInvFacts DEF IInv, PowerInv, TypeOK, GestureInv
<1> QED BY <1>1, IInvariance, PTL

(* latch_fault(): a held fault leaves no gate, request, jog, pending        *)
(* detent, backoff or latch reset behind, and no later call revives one.    *)
THEOREM FaultsAreInert == Spec => []FaultedIsInert
<1>1. IInv => FaultedIsInert
  <2> SUFFICES ASSUME IInv, motion.fault # None PROVE FaultedIsInert
    BY DEF FaultedIsInert
  <2>1. Faulted(motion)
    BY MotionInvFacts DEF IInv, PowerInv
  <2> QED
    BY <2>1 DEF FaultedIsInert, Faulted, Inert, IInv, PowerInv, OutputInv
<1> QED BY <1>1, IInvariance, PTL

(* update.rs, recovery.rs: an open gate means no fault, no gesture in the   *)
(* making, no latch reset and no visible reset still owed.                  *)
THEOREM GateIsEarned == Spec => []GateMeansRecovered
<1>1. IInv => GateMeansRecovered
  BY DEF IInv, PowerInv, StepInv, OutputInv, GateMeansRecovered, RecoveryActive,
         AskingSteps
<1> QED BY <1>1, IInvariance, PTL

(* recovery.rs, startup.rs: the two requests are never up together and none *)
(* is up outside the step that awaits its acknowledgement.                  *)
THEOREM RequestsAreOwned == Spec => []RequestsHaveAnOwner
<1>1. IInv => RequestsHaveAnOwner
  BY DEF IInv, PowerInv, OutputInv, RequestsHaveAnOwner
<1> QED BY <1>1, IInvariance, PTL

(* recovery.rs "a base AXIS reset does not also request Machine On".        *)
THEOREM MachineOnIsEarned == Spec => []MachineOnNeedsTheGesture
<1>1. IInv => MachineOnNeedsTheGesture
  BY DEF IInv, PowerInv, StepInv, OutputInv, MachineOnNeedsTheGesture
<1> QED BY <1>1, IInvariance, PTL
-----------------------------------------------------------------------------
(* The jog branch once more: what the phase says of the other fields        *)

MovingPhases == {"Bouncing", "BounceReleaseJog"} \cup StoppingPhases

(* A phase that waits for motion has a jog and a phase of the limit release *)
(* a limit; a detent is pending only in Pendant Mode; an increment of this  *)
(* cycle is armed and, with a limit attributed, leads away from it.         *)
Shape(m) ==
    /\ m.phase \in MovingPhases => m.active # None
    /\ m.active # None => m.phase \in MovingPhases \cup {"Idle"}
    /\ m.collision # None <=> m.phase \in BouncePhases
    /\ m.pending # None => m.mode
    /\ m.command \in Increment =>
          /\ m.fault = None
          /\ m.mode \/ m.phase = "Bouncing"
          /\ m.collision # None =>
                m.command.motor = m.collision /\ m.command.delta < 0

(* Outside advance_recovery(), two owners of a latch reset are left.        *)
Latched(m) == m.limitReset # {} => m.phase = "BounceResetAssert" \/ m.homingWas

(* A record a handler may be given, and one it may return.                  *)
Good(m) == Live(m) /\ Shape(m) /\ Latched(m)
Fine(m) ==
    /\ Safe(m) /\ Shape(m) /\ Latched(m)
    /\ m.fault # None => m.command = JogStopImmediate

(* A handler that is given m and returns n in a cycle with the input i      *)
(* keeps the attributed limit unless it fails, and turns the jog only when  *)
(* all motion has stopped or the jog is on its target.  A jog that it ends  *)
(* otherwise leaves a fresh interpreter, so that the packet of the cycle    *)
(* starts none in its place.                                                *)
Holds(m, n) ==
    m.collision = None \/ n.fault # None \/ n.collision = m.collision

Free(i) == AllStopped(i) \/ (PathSettled(i) /\ TargetReached(i))
Steers(m, n, i) ==
    Free(i) \/ m.active = None \/
        IF n.active = None
        THEN n.fault # None \/ (n.pending = None /\ n.interp = NewInterpreter)
        ELSE /\ n.active.motor = m.active.motor
             /\ SameSign(n.active.delta, m.active.delta)

Follows(m, n, i) == Fine(n) /\ Holds(m, n) /\ Steers(m, n, i)

LEMMA PhaseSets ==
    /\ BouncePhases =
          {"StoppingBounce", "Bouncing", "BounceResetAssert",
           "BounceResetValidate", "BounceReleaseWait", "BounceReleaseJog",
           "BounceReleaseStopping", "StartupGateSettle", "StartupWaitReset",
           "StartupWaitOn"}
    /\ MovingPhases =
          {"Bouncing", "BounceReleaseJog", "StoppingBounce", "StoppingReplace",
           "StoppingCancel", "BounceReleaseStopping"}
    /\ StoppingPhases =
          {"StoppingBounce", "StoppingReplace", "StoppingCancel",
           "BounceReleaseStopping"}
    /\ JogPhases =
          {"Idle", "StoppingCancel", "StoppingReplace", "StoppingBounce",
           "Bouncing", "BounceResetAssert", "BounceResetValidate",
           "BounceReleaseWait", "BounceReleaseJog", "BounceReleaseStopping"}
BY DEF BouncePhases, MovingPhases, StoppingPhases, JogPhases, ReleasePhases,
       StartupBouncePhases, StartupPowerPhases, StartupPhases, Phases

LEMMA NotIncrements ==
    /\ JogStop \notin Increment /\ JogStopImmediate \notin Increment
    /\ None \notin Increment
BY NoneFacts DEF JogStop, JogStopImmediate, Increment, Commands

LEMMA GoodIsFine ==
    ASSUME NEW m, Good(m), NEW i
    PROVE  Follows(m, m, i)
BY LiveIsSafe
   DEF Good, Fine, Live, Follows, Holds, Steers, SameSign

LEMMA FailFields ==
    ASSUME NEW m \in Motion, m.fault = None, NEW code \in Faults
    PROVE  LET f == Fail(m, code)
           IN  /\ f \in Motion /\ f.fault = code /\ f.fault # None
               /\ f.phase = "Idle" /\ f.active = None /\ f.pending = None
               /\ f.collision = None /\ f.limitReset = {}
               /\ f.command = JogStopImmediate
<1> DEFINE t == To(m, "Idle")
<1>1. t \in Motion /\ t.phase = "Idle"
  BY ToType, PhaseFacts
<1>2. Fail(m, code) =
          [t EXCEPT !.fault = code, !.command = JogStopImmediate,
                    !.active = None, !.pending = None, !.collision = None,
                    !.bounceStarted = FALSE, !.limitReset = {}]
  BY DEF Fail
<1>3. Fail(m, code) \in Motion /\ Fail(m, code).fault # None
  BY FailSafe DEF Safe
<1> HIDE DEF t
<1> QED BY <1>1, <1>2, <1>3 DEF Motion

LEMMA FailFollows ==
    ASSUME NEW m \in Motion, m.fault = None, NEW code \in Faults, NEW a, NEW i
    PROVE  Follows(a, Fail(m, code), i)
<1> DEFINE f == Fail(m, code)
<1>1. /\ f \in Motion /\ f.fault # None
      /\ f.phase = "Idle" /\ f.active = None /\ f.pending = None
      /\ f.collision = None /\ f.limitReset = {}
      /\ f.command = JogStopImmediate
  BY FailFields
<1> HIDE DEF f
<1>2. Safe(f)
  BY <1>1, PhaseFacts DEF Safe, Inert
<1>3. Shape(f) /\ Latched(f)
  BY <1>1, PhaseSets, NotIncrements DEF Shape, Latched
<1> QED BY <1>1, <1>2, <1>3 DEF f, Follows, Fine, Holds, Steers

LEMMA CancelFollows ==
    ASSUME NEW m, Good(m), NEW i
    PROVE  /\ Follows(m, CancelPendantMotion(m), i)
           /\ Good(CancelPendantMotion(m))
           /\ CancelPendantMotion(m).active = m.active
           /\ CancelPendantMotion(m).collision = m.collision
           /\ CancelPendantMotion(m).interp = m.interp
           /\ CancelPendantMotion(m).pending = None
           /\ CancelPendantMotion(m).phase = "BounceResetValidate" =>
                m.phase = "BounceResetValidate"
<1> DEFINE c == [m EXCEPT !.pending = None]
           d == [c EXCEPT !.command = JogStop]
           n == CancelPendantMotion(m)
<1>1. /\ m \in Motion /\ m.fault = None /\ m.phase \in JogPhases
      /\ Shape(m) /\ Latched(m)
  BY DEF Good, Live
<1>2. /\ c \in Motion /\ c.pending = None /\ c.phase = m.phase
      /\ c.fault = m.fault /\ c.active = m.active /\ c.command = m.command
      /\ c.collision = m.collision /\ c.limitReset = m.limitReset
      /\ c.mode = m.mode /\ c.interp = m.interp /\ c.homingWas = m.homingWas
  BY <1>1 DEF Motion
<1>3. d \in Motion /\ d = [c EXCEPT !.command = JogStop]
  BY <1>2, CommandFacts DEF Motion
<1> HIDE DEF c
<1>4. /\ d.pending = None /\ d.phase = m.phase
      /\ d.fault = m.fault /\ d.active = m.active /\ d.command = JogStop
      /\ d.collision = m.collision /\ d.limitReset = m.limitReset
      /\ d.mode = m.mode /\ d.interp = m.interp /\ d.homingWas = m.homingWas
  BY <1>2, <1>3 DEF Motion
<1>5. CancelPendantMotion(m) =
         IF m.active = None \/ m.phase = "StoppingCancel" THEN c
         ELSE IF m.phase = "BounceReleaseJog" THEN To(d, "BounceReleaseStopping")
         ELSE IF m.phase \in BouncePhases THEN c
         ELSE To(d, "StoppingCancel")
  BY DEF CancelPendantMotion, c
<1> HIDE DEF d
<1>6. Live(n)
  BY CancelLive DEF Good
<1>7. CASE n = c
  <2>1. Shape(c) /\ Latched(c)
    BY <1>1, <1>2 DEF Shape, Latched
  <2> QED
    BY <1>1, <1>2, <1>6, <1>7, <2>1, LiveIsSafe
       DEF Follows, Good, Fine, Live, Holds, Steers, SameSign
<1>8. ASSUME NEW p \in {"BounceReleaseStopping", "StoppingCancel"},
             m.active # None, n = To(d, p),
             p = "BounceReleaseStopping" <=> m.phase \in BouncePhases,
             m.phase # "BounceResetAssert"
      PROVE  /\ Follows(m, n, i) /\ Good(n) /\ n.active = m.active
             /\ n.collision = m.collision /\ n.interp = m.interp
             /\ n.pending = None /\ n.phase = p
  <2>1. /\ n \in Motion /\ n.phase = p /\ n.pending = None
        /\ n.fault = m.fault /\ n.active = m.active /\ n.command = JogStop
        /\ n.collision = m.collision /\ n.limitReset = m.limitReset
        /\ n.mode = m.mode /\ n.interp = m.interp /\ n.homingWas = m.homingWas
    <3> HIDE DEF n
    <3>1. p \in Phases
      BY PhaseFacts
    <3> QED BY <1>3, <1>4, <1>8, <3>1, ToType
  <2> HIDE DEF n
  <2>2. Shape(n) /\ Latched(n)
    BY <1>1, <1>8, <2>1, PhaseSets, NotIncrements DEF Shape, Latched
  <2>3. Good(n) /\ Fine(n)
    BY <1>1, <1>6, <2>1, <2>2, LiveIsSafe DEF Good, Fine
  <2>4. Holds(m, n) /\ Steers(m, n, i)
    BY <1>8, <2>1 DEF Holds, Steers, SameSign
  <2> QED BY <2>1, <2>3, <2>4 DEF Follows
<1>9. CASE n # c
  BY <1>5, <1>8, <1>9, PhaseSets
<1> QED BY <1>7, <1>9

LEMMA IssueFields ==
    ASSUME NEW m \in Motion, m.fault = None, NEW motor \in Motors,
           NEW path \in Paths, NEW delta \in Int, NEW p \in JogPhases
    PROVE  LET n == Issue(m, motor, path, delta, p)
           IN  /\ Live(n) /\ n.phase = p /\ n.pending = m.pending
               /\ n.active # None /\ n.active.motor = motor
               /\ n.active.delta = delta
               /\ n.command \in Increment /\ n.command.motor = motor
               /\ n.command.delta = delta
               /\ n.collision = m.collision /\ n.limitReset = m.limitReset
               /\ n.mode = m.mode /\ n.interp = m.interp
               /\ n.homingWas = m.homingWas
<1> DEFINE n == Issue(m, motor, path, delta, p)
           t == To(m, p)
           a == NewActive(motor, delta, path)
           j == JogIncrement(motor, path, delta)
<1>1. /\ a \in ActiveJog /\ a # None /\ a.motor = motor /\ a.delta = delta
  <2>1. a \in ActiveJog /\ a.motor = motor /\ a.delta = delta
    BY TimerFacts DEF NewActive, ActiveJog
  <2> HIDE DEF a
  <2> QED BY <2>1, NoneFacts
<1>2. /\ j \in Increment /\ j.motor = motor /\ j.delta = delta
  BY DEF JogIncrement, Increment
<1>3. /\ t \in Motion /\ t.phase = p /\ t.pending = m.pending
      /\ t.collision = m.collision /\ t.limitReset = m.limitReset
      /\ t.mode = m.mode /\ t.interp = m.interp /\ t.homingWas = m.homingWas
  BY ToType, PhaseFacts
<1>4. n = [t EXCEPT !.command = j, !.active = a]
  BY DEF Issue
<1>5. Live(n)
  BY IssueLive
<1> HIDE DEF t, a, j, n
<1>6. /\ n.command = j /\ n.active = a /\ n.phase = p
      /\ n.pending = m.pending
      /\ n.collision = m.collision /\ n.limitReset = m.limitReset
      /\ n.mode = m.mode /\ n.interp = m.interp /\ n.homingWas = m.homingWas
  BY <1>3, <1>4 DEF Motion
<1> QED BY <1>1, <1>2, <1>5, <1>6 DEF n

(* The two ways a record changes nothing but what is pending.               *)
LEMMA PendingFollows ==
    ASSUME NEW m, Good(m), NEW t \in Intent \cup {None}, t # None => m.mode,
           NEW i
    PROVE  LET n == [m EXCEPT !.pending = t]
           IN  /\ Follows(m, n, i) \/ (m.active = None /\ Fine(n) /\ Holds(m, n))
               /\ Good(n) /\ n.pending = t /\ n.phase = m.phase
               /\ n.active = m.active /\ n.collision = m.collision
               /\ n.mode = m.mode /\ n.interp = m.interp
               /\ n.command = m.command
<1> DEFINE n == [m EXCEPT !.pending = t]
<1>1. m \in Motion
  BY DEF Good, Live
<1>2. /\ n \in Motion /\ n.pending = t /\ n.phase = m.phase
      /\ n.fault = m.fault /\ n.active = m.active /\ n.command = m.command
      /\ n.collision = m.collision /\ n.limitReset = m.limitReset
      /\ n.mode = m.mode /\ n.interp = m.interp /\ n.homingWas = m.homingWas
  BY <1>1 DEF Motion
<1> HIDE DEF n
<1>3. Live(n)
  BY <1>2 DEF Good, Live
<1>4. Shape(n) /\ Latched(n)
  BY <1>2 DEF Good, Shape, Latched
<1>5. Good(n) /\ Fine(n)
  BY <1>3, <1>4, LiveIsSafe DEF Good, Fine, Live
<1>6. Holds(m, n) /\ Steers(m, n, i)
  BY <1>2 DEF Holds, Steers, SameSign
<1> QED BY <1>2, <1>5, <1>6 DEF n, Follows

LEMMA StartJogFollows ==
    ASSUME NEW m, Good(m), m.phase = "Idle", m.active = None, m.mode,
           NEW t \in Intent, NEW i \in Input
    PROVE  Follows(m, StartJog(m, t, i), i)
<1>1. m \in Motion /\ m.fault = None /\ Shape(m) /\ Latched(m)
  BY DEF Good, Live
<1>2. Follows(m, Fail(m, "FeedbackUnusable"), i)
  BY <1>1, FailFollows DEF Faults
<1>3. Follows(m, [m EXCEPT !.pending = t], i)
  BY PendingFollows DEF Follows, Steers
<1>4. ASSUME i.path # None
      PROVE  Follows(m, [Issue(m, t.motor, i.path, t.delta, "Idle")
                            EXCEPT !.pending = None], i)
  <2> DEFINE k == Issue(m, t.motor, i.path, t.delta, "Idle")
             n == [k EXCEPT !.pending = None]
  <2>1. /\ i.path \in Paths /\ t.motor \in Motors /\ t.delta \in Int
        /\ "Idle" \in JogPhases
    BY <1>4, PhaseFacts DEF Input, Intent
  <2>2. /\ Live(k) /\ k.phase = "Idle" /\ k.active # None
        /\ k.collision = m.collision /\ k.limitReset = m.limitReset
        /\ k.mode = m.mode /\ k.homingWas = m.homingWas
    <3>1. m \in Motion /\ m.fault = None
      BY <1>1
    <3> QED BY ONLY <2>1, <3>1, IssueFields, t \in Intent
  <2> HIDE DEF k
  <2>3. /\ Live(n) /\ n.phase = "Idle" /\ n.active # None /\ n.pending = None
        /\ n.collision = m.collision /\ n.limitReset = m.limitReset
        /\ n.mode = m.mode /\ n.homingWas = m.homingWas /\ n.fault = None
    BY <2>2 DEF Live, Motion
  <2> HIDE DEF n
  <2>4. Shape(n) /\ Latched(n)
    BY <1>1, <2>3, PhaseSets DEF Shape, Latched
  <2>5. Follows(m, n, i)
    BY <2>3, <2>4, LiveIsSafe DEF Follows, Fine, Holds, Steers
  <2> QED BY <2>5 DEF n, k
<1> QED BY <1>2, <1>3, <1>4, GoodIsFine DEF StartJog

LEMMA RequestJogFollows ==
    ASSUME NEW m, Good(m), m.mode, NEW t \in Intent, NEW i \in Input
    PROVE  Follows(m, RequestJog(m, t, i), i)
<1>1. /\ m \in Motion /\ m.fault = None /\ m.phase \in JogPhases
      /\ Shape(m) /\ Latched(m)
  BY DEF Good, Live
<1>2. CASE m.phase \in BouncePhases
  BY <1>2, GoodIsFine DEF RequestJog
<1>3. CASE m.phase \notin BouncePhases /\ m.active = None
  <2>1. m.phase = "Idle"
    BY <1>1, <1>3, PhaseSets DEF Shape
  <2> QED BY <1>3, <2>1, StartJogFollows DEF RequestJog
<1>4. CASE m.phase \notin BouncePhases /\ m.active # None
  <2> DEFINE a == [m.active EXCEPT !.delta = t.delta]
             b == [m.active EXCEPT !.delta = t.delta, !.elapsed = 0]
             j == JogIncrement(t.motor, m.active.path, Extension(t, i))
             kept == [m EXCEPT !.active = a, !.pending = None]
             more == [m EXCEPT !.command = j, !.active = b, !.pending = None]
             waits == [m EXCEPT !.pending = t]
             d == [m EXCEPT !.pending = t, !.command = JogStop]
             stops == To(d, "StoppingReplace")
  <2>1. m.active \in ActiveJog /\ t.delta \in Int /\ t.motor \in Motors
    BY <1>1, <1>4 DEF Motion, Intent
  <2>2. /\ a \in ActiveJog /\ a # None
        /\ a.motor = m.active.motor /\ a.delta = t.delta
        /\ b \in ActiveJog /\ b # None
        /\ b.motor = m.active.motor /\ b.delta = t.delta
    BY <2>1, TimerFacts, NoneFacts DEF ActiveJog
  <2>3. j \in Commands
    <3>1. Extension(t, i) \in Int
      BY <2>1 DEF Extension, Input
    <3> QED BY <2>1, <3>1 DEF JogIncrement, Commands, Increment, ActiveJog
  <2> HIDE DEF a, b, j
  <2>4. Follows(m, waits, i)
    BY <1>4, PendingFollows
  <2>5. CASE SameMotion(m, t, i) /\ RequestJog(m, t, i) \in {kept, more}
    <3> DEFINE n == RequestJog(m, t, i)
    <3>1. /\ n \in Motion /\ n.phase = "Idle" /\ n.active \in {a, b}
          /\ n.pending = None /\ n.collision = m.collision
          /\ n.limitReset = m.limitReset /\ n.homingWas = m.homingWas
          /\ n.mode = m.mode /\ n.fault = None
      <4> HIDE DEF n
      <4>1. n \in {kept, more}
        BY <2>5 DEF n
      <4>2. m.phase = "Idle"
        BY <2>5 DEF SameMotion
      <4>3. CASE n = kept
        BY <1>1, <2>2, <4>2, <4>3, ZenonT(30) DEF Motion
      <4>4. CASE n = more
        BY <1>1, <2>2, <2>3, <4>2, <4>4, ZenonT(30) DEF Motion
      <4> QED BY <4>1, <4>3, <4>4
    <3> HIDE DEF n
    <3>2. Shape(n) /\ Latched(n)
      BY <1>1, <2>2, <2>5, <3>1, PhaseSets DEF Shape, Latched, SameMotion
    <3>3. Safe(n)
      BY <3>1, PhaseSets DEF Safe
    <3>4. Steers(m, n, i) /\ Holds(m, n)
      BY <2>2, <2>5, <3>1 DEF Steers, Holds, SameMotion, SameSign
    <3> QED BY <3>1, <3>2, <3>3, <3>4 DEF n, Follows, Fine
  <2>6. Follows(m, stops, i)
    <3>1. d \in Motion /\ d.phase = m.phase
          /\ d.fault = None /\ d.active = m.active /\ d.command = JogStop
          /\ d.collision = m.collision /\ d.limitReset = m.limitReset
          /\ d.mode = m.mode /\ d.homingWas = m.homingWas
      BY <1>1, CommandFacts DEF Motion
    <3> HIDE DEF d
    <3>2. /\ stops \in Motion /\ stops.phase = "StoppingReplace"
          /\ stops.fault = None /\ stops.active = m.active
          /\ stops.command = JogStop /\ stops.collision = m.collision
          /\ stops.limitReset = m.limitReset /\ stops.mode = m.mode
          /\ stops.homingWas = m.homingWas
      <4>1. "StoppingReplace" \in Phases
        BY PhaseFacts
      <4> QED BY <3>1, <4>1, ToType
    <3> HIDE DEF stops
    <3>3. Shape(stops) /\ Latched(stops)
      BY <1>1, <1>4, <3>2, PhaseSets, NotIncrements DEF Shape, Latched
    <3>4. Safe(stops)
      BY <3>2, PhaseSets DEF Safe
    <3>5. Steers(m, stops, i) /\ Holds(m, stops)
      BY <1>4, <3>2 DEF Steers, Holds, SameSign
    <3> QED BY <3>2, <3>3, <3>4, <3>5 DEF Follows, Fine
  <2>7. \/ SameMotion(m, t, i) /\ RequestJog(m, t, i) \in {kept, more}
        \/ RequestJog(m, t, i) \in {waits, stops}
    BY <1>4 DEF RequestJog, Extend, a, b, j
  <2> HIDE DEF waits, stops
  <2> QED BY <2>4, <2>5, <2>6, <2>7
<1> QED BY <1>2, <1>3, <1>4

LEMMA BeginBounceFollows ==
    ASSUME NEW m, Good(m), m.phase \notin BouncePhases, m.active # None,
           NEW motor \in Motors, NEW i
    PROVE  /\ Follows(m, BeginBounce(m, motor), i)
           /\ BeginBounce(m, motor).command \notin Increment
           /\ BeginBounce(m, motor).phase = "StoppingBounce"
<1> DEFINE d == [m EXCEPT !.command = JogStopImmediate, !.pending = None,
                          !.collision = motor, !.bounceStarted = FALSE]
           n == To(d, "StoppingBounce")
<1>1. /\ m \in Motion /\ m.fault = None /\ m.phase \in JogPhases
      /\ Shape(m) /\ Latched(m)
  BY DEF Good, Live
<1>2. BeginBounce(m, motor) = n
  BY DEF BeginBounce
<1>3. /\ d \in Motion /\ d.command = JogStopImmediate /\ d.pending = None
      /\ d.collision = motor /\ d.fault = None /\ d.active = m.active
      /\ d.limitReset = m.limitReset /\ d.homingWas = m.homingWas
  BY <1>1, CommandFacts, ZenonT(30) DEF Motion
<1> HIDE DEF d
<1>4. /\ n \in Motion /\ n.command = JogStopImmediate /\ n.pending = None
      /\ n.collision = motor /\ n.fault = None /\ n.active = m.active
      /\ n.limitReset = m.limitReset /\ n.homingWas = m.homingWas
      /\ n.phase = "StoppingBounce"
  <2>1. "StoppingBounce" \in Phases
    BY PhaseFacts
  <2> QED BY <1>3, <2>1, ToType
<1> HIDE DEF n
<1>5. motor # None
  BY SampleAssumption
<1>6. Shape(n) /\ Latched(n) /\ Safe(n)
  BY <1>1, <1>4, <1>5, PhaseSets, NotIncrements DEF Shape, Latched, Safe
<1>7. m.collision = None
  BY <1>1 DEF Shape
<1>8. Holds(m, n) /\ Steers(m, n, i)
  BY <1>4, <1>7 DEF Holds, Steers, SameSign
<1> QED BY <1>2, <1>4, <1>6, <1>8, NotIncrements DEF Follows, Fine

(* Also called from the startup, with nothing active.                       *)
LEMMA StartBounceMoveFollows ==
    ASSUME NEW m \in Motion, m.fault = None, Shape(m), Latched(m),
           m.phase \in BouncePhases, m.phase # "BounceResetAssert",
           NEW path \in Paths, NEW i \in Input,
           Free(i) \/ m.active = None
    PROVE  LET n == StartBounceMove(m, path, i)
           IN  n = m \/ Follows(m, n, i)
<1> DEFINE k == Issue(m, m.collision, path, -BouncePulses, "Bouncing")
           n == [k EXCEPT !.bounceStarted = TRUE]
<1>1. /\ Follows(m, Fail(m, "BounceLostLimitAttribution"), i)
      /\ Follows(m, Fail(m, "MotionPathUnavailable"), i)
      /\ Follows(m, Fail(m, "FeedbackUnusable"), i)
  BY FailFollows DEF Faults
<1>2. m.collision \in Motors
  BY DEF Shape, Motion
<1>3. /\ Live(k) /\ k.phase = "Bouncing" /\ k.pending = m.pending
      /\ k.active # None
      /\ k.command \in Increment /\ k.command.motor = m.collision
      /\ k.command.delta = -BouncePulses
      /\ k.collision = m.collision /\ k.limitReset = m.limitReset
      /\ k.mode = m.mode /\ k.homingWas = m.homingWas
  <2>1. -BouncePulses \in Int /\ "Bouncing" \in JogPhases
    BY TimerAssumption, PhaseFacts
  <2> QED BY ONLY <1>2, <2>1, IssueFields, m \in Motion, m.fault = None,
                  path \in Paths
<1> HIDE DEF k
<1>4. /\ Live(n) /\ n.phase = "Bouncing" /\ n.pending = m.pending
      /\ n.active # None
      /\ n.command \in Increment /\ n.command.motor = m.collision
      /\ n.command.delta = -BouncePulses
      /\ n.collision = m.collision /\ n.limitReset = m.limitReset
      /\ n.mode = m.mode /\ n.homingWas = m.homingWas /\ n.fault = None
  BY <1>3 DEF Live, Motion
<1> HIDE DEF n
<1>5. -BouncePulses < 0
  BY TimerAssumption
<1>6. Shape(n) /\ Latched(n)
  BY <1>2, <1>4, <1>5, PhaseSets DEF Shape, Latched
<1>7. Follows(m, n, i)
  BY <1>4, <1>6, LiveIsSafe DEF Follows, Fine, Holds, Steers, Free
<1> QED BY <1>1, <1>7 DEF StartBounceMove, n, k

LEMMA BeginLimitResetFollows ==
    ASSUME NEW m, Good(m), m.phase \in BouncePhases,
           m.mode \/ m.command \notin Increment,
           NEW motor \in Motors, NEW i, Free(i) \/ m.active = None
    PROVE  /\ Follows(m, BeginLimitReset(m, motor), i)
           /\ BeginLimitReset(m, motor).phase = "BounceResetAssert"
<1> DEFINE d == [m EXCEPT !.active = None, !.pending = None,
                          !.limitReset = m.limitReset \cup {motor}]
           n == To(d, "BounceResetAssert")
<1>1. /\ m \in Motion /\ m.fault = None /\ Shape(m)
  BY DEF Good, Live
<1>2. BeginLimitReset(m, motor) = n
  BY DEF BeginLimitReset
<1>3. /\ d \in Motion /\ d.command = m.command /\ d.pending = None
      /\ d.collision = m.collision /\ d.fault = None /\ d.active = None
      /\ d.mode = m.mode
  BY <1>1 DEF Motion
<1> HIDE DEF d
<1>4. /\ n \in Motion /\ n.command = m.command /\ n.pending = None
      /\ n.collision = m.collision /\ n.fault = None /\ n.active = None
      /\ n.mode = m.mode /\ n.phase = "BounceResetAssert"
  <2>1. "BounceResetAssert" \in Phases
    BY PhaseFacts
  <2> QED BY <1>3, <2>1, ToType
<1> HIDE DEF n
<1>5. Shape(n) /\ Latched(n) /\ Safe(n)
  BY <1>1, <1>4, PhaseSets DEF Shape, Latched, Safe
<1>6. Holds(m, n) /\ Steers(m, n, i)
  BY <1>4 DEF Holds, Steers
<1> QED BY <1>2, <1>4, <1>5, <1>6 DEF Follows, Fine

LEMMA StartLimitReleaseJogFollows ==
    ASSUME NEW m, Good(m), m.mode, NEW t \in Intent, NEW i \in Input
    PROVE  Follows(m, StartLimitReleaseJog(m, t, i), i)
<1>1. /\ m \in Motion /\ m.fault = None /\ Shape(m) /\ Latched(m)
  BY DEF Good, Live
<1>2. /\ Follows(m, Fail(m, "BounceLostLimitAttribution"), i)
      /\ Follows(m, Fail(m, "FeedbackUnusable"), i)
  BY <1>1, FailFollows DEF Faults
<1>3. CASE m.collision = None \/ m.phase # "BounceReleaseWait"
  BY <1>2, <1>3, GoodIsFine DEF StartLimitReleaseJog
<1>4. CASE m.collision # None /\ m.phase = "BounceReleaseWait"
  <2>1. m.active = None /\ m.collision \in Motors
    BY <1>1, <1>4, PhaseSets DEF Shape, Motion
  <2>2. Follows(m, BeginLimitReset(m, m.collision), i)
    BY <1>4, <2>1, BeginLimitResetFollows, PhaseSets
  <2>3. ASSUME i.path # None, t.motor = m.collision, ~(t.delta >= 0)
        PROVE  Follows(m, [Issue(m, t.motor, i.path, t.delta, "BounceReleaseJog")
                              EXCEPT !.pending = None], i)
    <3> DEFINE k == Issue(m, t.motor, i.path, t.delta, "BounceReleaseJog")
               n == [k EXCEPT !.pending = None]
    <3>1. /\ Live(k) /\ k.phase = "BounceReleaseJog" /\ k.active # None
          /\ k.command \in Increment /\ k.command.motor = t.motor
          /\ k.command.delta = t.delta
          /\ k.collision = m.collision /\ k.limitReset = m.limitReset
          /\ k.mode = m.mode /\ k.homingWas = m.homingWas
      <4>1. /\ i.path \in Paths /\ t.motor \in Motors /\ t.delta \in Int
            /\ "BounceReleaseJog" \in JogPhases
        BY <2>3, PhaseFacts DEF Input, Intent
      <4>2. m \in Motion /\ m.fault = None
        BY <1>1
      <4> QED BY ONLY <4>1, <4>2, IssueFields
    <3> HIDE DEF k
    <3>2. /\ Live(n) /\ n.phase = "BounceReleaseJog" /\ n.active # None
          /\ n.command \in Increment /\ n.command.motor = t.motor
          /\ n.command.delta = t.delta /\ n.pending = None
          /\ n.collision = m.collision /\ n.limitReset = m.limitReset
          /\ n.mode = m.mode /\ n.homingWas = m.homingWas /\ n.fault = None
      BY <3>1 DEF Live, Motion
    <3> HIDE DEF n
    <3>3. t.delta < 0
      BY <2>3 DEF Intent
    <3>4. Shape(n) /\ Latched(n)
      BY <1>1, <1>4, <2>3, <3>2, <3>3, PhaseSets DEF Shape, Latched
    <3>5. Follows(m, n, i)
      BY <2>1, <3>2, <3>4, LiveIsSafe DEF Follows, Fine, Holds, Steers
    <3> QED BY <3>5 DEF n, k
  <2> QED
    BY <1>2, <1>4, <2>2, <2>3, GoodIsFine DEF StartLimitReleaseJog
<1> QED BY <1>3, <1>4

(* The jog is over.  Without the consumer's leave the interpreter is fresh  *)
(* too, so that no detent of this cycle can start the next one.             *)
LEMMA StoodDownFollows ==
    ASSUME NEW m, Good(m), m.command \notin Increment,
           NEW p \in {"Idle", "BounceReleaseWait"},
           p = "BounceReleaseWait" <=> m.phase \in BouncePhases,
           m.phase # "BounceResetAssert", NEW i,
           NEW n \in
              {To([m EXCEPT !.active = None, !.pending = None,
                            !.interp = NewInterpreter], p),
               To([m EXCEPT !.active = None, !.pending = None], p),
               To([m EXCEPT !.active = None], p)},
           \/ Free(i)
           \/ n = To([m EXCEPT !.active = None, !.pending = None,
                               !.interp = NewInterpreter], p)
    PROVE  /\ Follows(m, n, i) /\ Good(n) /\ n.active = None /\ n.phase = p
           /\ n.collision = m.collision /\ n.mode = m.mode
           /\ n.pending \in {None, m.pending} /\ n.command = m.command
<1> DEFINE a == [m EXCEPT !.active = None, !.pending = None,
                          !.interp = NewInterpreter]
           b == [m EXCEPT !.active = None, !.pending = None]
           c == [m EXCEPT !.active = None]
<1>1. /\ m \in Motion /\ m.fault = None /\ Shape(m) /\ Latched(m)
  BY DEF Good, Live
<1>2. PICK d \in {a, b, c} : n = To(d, p) /\ (Free(i) \/ d = a)
  OBVIOUS
<1>3. /\ d \in Motion /\ d.active = None /\ d.pending \in {None, m.pending}
      /\ d.fault = None /\ d.command = m.command /\ d.collision = m.collision
      /\ d.limitReset = m.limitReset /\ d.mode = m.mode
      /\ d.homingWas = m.homingWas
  <2>1. CASE d = a
    BY <1>1, <2>1, InterpreterFacts, ZenonT(30) DEF Motion
  <2>2. CASE d = b
    BY <1>1, <2>2, ZenonT(30) DEF Motion
  <2>3. CASE d = c
    BY <1>1, <2>3 DEF Motion
  <2> QED BY <1>2, <2>1, <2>2, <2>3
<1>4. d = a => d.pending = None /\ d.interp = NewInterpreter
  BY <1>1 DEF Motion
<1> HIDE DEF a, b, c
<1>5. p \in Phases /\ p \in JogPhases
  BY PhaseFacts
<1>6. /\ n \in Motion /\ n.active = None /\ n.pending = d.pending
      /\ n.fault = None /\ n.command = m.command /\ n.collision = m.collision
      /\ n.limitReset = m.limitReset /\ n.mode = m.mode
      /\ n.homingWas = m.homingWas /\ n.interp = d.interp /\ n.phase = p
  BY <1>2, <1>3, <1>5, ToType
<1>7. Shape(n) /\ Latched(n)
  BY <1>1, <1>3, <1>6, PhaseSets DEF Shape, Latched
<1>8. Good(n) /\ Safe(n)
  BY <1>5, <1>6, <1>7 DEF Good, Live, Safe
<1>9. Holds(m, n) /\ Steers(m, n, i)
  BY <1>2, <1>4, <1>6 DEF Holds, Steers
<1> QED BY <1>3, <1>6, <1>7, <1>8, <1>9 DEF Follows, Fine

(* What follows a record follows every record it agrees with.               *)
LEMMA FollowsSame ==
    ASSUME NEW m, NEW o, NEW n, NEW i, Follows(o, n, i),
           o.collision = m.collision,
           \/ Free(i) \/ m.active = o.active
           \/ /\ o.active # None /\ o.active.motor = m.active.motor
              /\ o.active.delta = m.active.delta
    PROVE  Follows(m, n, i)
BY DEF Follows, Holds, Steers

LEMMA FinishUnacceptedFollows ==
    ASSUME NEW m, Good(m), m.command \notin Increment,
           m.phase \in {"Idle", "BounceReleaseJog"}, NEW i
    PROVE  Follows(m, FinishUnacceptedJog(m), i)
<1> DEFINE p == IF m.phase = "BounceReleaseJog" THEN "BounceReleaseWait" ELSE "Idle"
<1>1. FinishUnacceptedJog(m) =
          To([m EXCEPT !.active = None, !.pending = None,
                       !.interp = NewInterpreter], p)
  BY DEF FinishUnacceptedJog
<1>2. /\ p \in {"Idle", "BounceReleaseWait"}
      /\ p = "BounceReleaseWait" <=> m.phase \in BouncePhases
      /\ m.phase # "BounceResetAssert"
  BY PhaseSets
<1> HIDE DEF p
<1>3. Follows(m, To([m EXCEPT !.active = None, !.pending = None,
                              !.interp = NewInterpreter], p), i)
  BY <1>2, StoodDownFollows
<1> QED BY <1>1, <1>3

LEMMA FinishBounceFollows ==
    ASSUME NEW m, Good(m), m.command \notin Increment,
           m.phase \in {"Bouncing", "BounceReleaseJog"}, NEW i, PathSettled(i)
    PROVE  Follows(m, FinishBounce(m, i), i)
<1>1. m \in Motion /\ m.fault = None
  BY DEF Good, Live
<1>2. /\ Follows(m, Fail(m, "BounceLostLimitAttribution"), i)
      /\ Follows(m, Fail(m, "FeedbackUnusable"), i)
  BY <1>1, FailFollows DEF Faults
<1>3. CASE m.collision # None /\ TargetReached(i)
  <2>1. Free(i) /\ m.collision \in Motors /\ m.phase \in BouncePhases
    BY <1>1, <1>3, PhaseSets DEF Free, Motion
  <2>2. Follows(m, BeginLimitReset(m, m.collision), i)
    BY <2>1, BeginLimitResetFollows
  <2>3. Follows(m, To([m EXCEPT !.active = None, !.pending = None,
                                !.interp = NewInterpreter],
                      "BounceReleaseWait"), i)
    <3> DEFINE p == "BounceReleaseWait"
    <3>1. /\ p \in {"Idle", "BounceReleaseWait"} /\ m.phase # "BounceResetAssert"
          /\ p = "BounceReleaseWait" <=> m.phase \in BouncePhases
      BY <2>1
    <3> HIDE DEF p
    <3>2. Follows(m, To([m EXCEPT !.active = None, !.pending = None,
                                  !.interp = NewInterpreter], p), i)
      BY <3>1, StoodDownFollows
    <3> QED BY <3>2 DEF p
  <2> QED BY <1>2, <1>3, <2>2, <2>3 DEF FinishBounce
<1>4. CASE m.collision = None \/ ~TargetReached(i)
  BY <1>2, <1>4, GoodIsFine DEF FinishBounce
<1> QED BY <1>3, <1>4

LEMMA AdvanceReleaseWaitFollows ==
    ASSUME NEW m, Good(m), m.command \notin Increment,
           m.phase = "BounceReleaseWait", NEW i
    PROVE  Follows(m, AdvanceReleaseWait(m, i), i)
<1>1. m \in Motion /\ m.fault = None /\ Shape(m)
  BY DEF Good, Live
<1>2. m.collision \in Motors /\ m.active = None /\ m.phase \in BouncePhases
  BY <1>1, PhaseSets DEF Shape, Motion
<1>3. Follows(m, BeginLimitReset(m, m.collision), i)
  BY <1>2, BeginLimitResetFollows
<1> QED
  BY <1>2, <1>3, SampleAssumption, GoodIsFine DEF AdvanceReleaseWait

(* The attribution is given up here, and only with the latch read clear.    *)
LEMMA AdvanceLatchResetFollows ==
    ASSUME NEW m, Good(m), m.command \notin Increment,
           m.phase \in {"BounceResetAssert", "BounceResetValidate"}, NEW i
    PROVE  LET n == AdvanceLatchReset(m, i)
           IN  \/ Follows(m, n, i)
               \/ /\ Fine(n) /\ n.active = None /\ m.active = None
                  /\ m.phase = "BounceResetValidate" /\ i.safety = {}
<1>1. m \in Motion /\ m.fault = None /\ Shape(m) /\ Latched(m)
  BY DEF Good, Live
<1>2. m.active = None /\ m.phase \in BouncePhases
  BY <1>1, PhaseSets DEF Shape
<1>3. Follows(m, Fail(m, "LimitLatchResetTimedOut"), i)
  BY <1>1, FailFollows DEF Faults
<1>4. CASE m.phase = "BounceResetAssert"
  <2> DEFINE d == [m EXCEPT !.limitReset = {}]
             n == To(d, "BounceResetValidate")
  <2>1. /\ d \in Motion /\ d.limitReset = {} /\ d.active = m.active
        /\ d.pending = m.pending /\ d.fault = None /\ d.command = m.command
        /\ d.collision = m.collision /\ d.mode = m.mode
    BY <1>1 DEF Motion
  <2> HIDE DEF d
  <2>2. /\ n \in Motion /\ n.limitReset = {} /\ n.active = m.active
        /\ n.pending = m.pending /\ n.fault = None /\ n.command = m.command
        /\ n.collision = m.collision /\ n.mode = m.mode
        /\ n.phase = "BounceResetValidate"
    <3>1. "BounceResetValidate" \in Phases
      BY PhaseFacts
    <3> QED BY <2>1, <3>1, ToType
  <2> HIDE DEF n
  <2>3. Shape(n) /\ Latched(n) /\ Safe(n)
    BY <1>1, <1>2, <1>4, <2>2, PhaseSets DEF Shape, Latched, Safe
  <2>4. Follows(m, n, i)
    BY <1>2, <2>2, <2>3 DEF Follows, Fine, Holds, Steers
  <2> QED BY <1>4, <2>4, GoodIsFine DEF AdvanceLatchReset, n, d
<1>5. CASE m.phase = "BounceResetValidate"
  <2> DEFINE d == [m EXCEPT !.active = None, !.pending = None, !.collision = None,
                            !.bounceStarted = FALSE, !.interp = NewInterpreter]
             n == To(d, "Idle")
  <2>1. /\ d \in Motion /\ d.limitReset = m.limitReset /\ d.active = None
        /\ d.pending = None /\ d.fault = None /\ d.command = m.command
        /\ d.collision = None /\ d.mode = m.mode /\ d.homingWas = m.homingWas
    BY <1>1, InterpreterFacts, ZenonT(30) DEF Motion
  <2> HIDE DEF d
  <2>2. /\ n \in Motion /\ n.limitReset = m.limitReset /\ n.active = None
        /\ n.pending = None /\ n.fault = None /\ n.command = m.command
        /\ n.collision = None /\ n.mode = m.mode /\ n.phase = "Idle"
        /\ n.homingWas = m.homingWas
    <3>1. "Idle" \in Phases
      BY PhaseFacts
    <3> QED BY <2>1, <3>1, ToType
  <2> HIDE DEF n
  <2>3. Shape(n) /\ Latched(n) /\ Safe(n)
    BY <1>1, <1>5, <2>2, PhaseSets DEF Shape, Latched, Safe
  <2>4. Fine(n)
    BY <2>2, <2>3 DEF Fine
  <2> QED
    BY <1>2, <1>3, <1>5, <2>2, <2>4, GoodIsFine DEF AdvanceLatchReset, n, d
<1> QED BY <1>4, <1>5

LEMMA StartPendingFollows ==
    ASSUME NEW m, Good(m), m.phase = "Idle", m.active = None, NEW i \in Input
    PROVE  Follows(m, StartPending(m, i), i)
<1> DEFINE k == [m EXCEPT !.pending = None]
<1>1. CASE m.pending = None
  BY <1>1, GoodIsFine DEF StartPending
<1>2. CASE m.pending # None
  <2>1. m.pending \in Intent /\ m.mode
    BY <1>2 DEF Good, Live, Motion, Shape
  <2>2. /\ Good(k) /\ k.phase = "Idle" /\ k.active = None /\ k.mode
        /\ k.collision = m.collision
    BY <2>1, PendingFollows
  <2> HIDE DEF k
  <2>3. Follows(k, StartJog(k, m.pending, i), i)
    BY <2>1, <2>2, StartJogFollows
  <2>4. Follows(m, StartJog(k, m.pending, i), i)
    BY <2>2, <2>3, FollowsSame
  <2> QED BY <1>2, <2>4 DEF StartPending, k
<1> QED BY <1>1, <1>2

(* A jog whose consumer has let go gives way to the pending one.            *)
LEMMA NextJogFollows ==
    ASSUME NEW m, Good(m), m.command \notin Increment,
           m.phase \notin BouncePhases, NEW i \in Input, Free(i)
    PROVE  Follows(m, StartPending(To([m EXCEPT !.active = None], "Idle"), i), i)
<1> DEFINE k == To([m EXCEPT !.active = None], "Idle")
<1>1. m.phase # "BounceResetAssert"
  BY PhaseSets
<1>2. /\ Good(k) /\ k.active = None /\ k.phase = "Idle"
      /\ k.collision = m.collision
  <2> DEFINE p == "Idle"
  <2>1. /\ p \in {"Idle", "BounceReleaseWait"}
        /\ p = "BounceReleaseWait" <=> m.phase \in BouncePhases
    OBVIOUS
  <2> HIDE DEF p
  <2>2. LET n == To([m EXCEPT !.active = None], p)
        IN  /\ Good(n) /\ n.active = None /\ n.phase = p
            /\ n.collision = m.collision
    BY <1>1, <2>1, StoodDownFollows, ZenonT(30)
  <2> QED BY <2>2 DEF p
<1> HIDE DEF k
<1>3. Follows(k, StartPending(k, i), i)
  BY <1>2, StartPendingFollows
<1>4. Follows(m, StartPending(k, i), i)
  BY <1>2, <1>3, FollowsSame
<1> QED BY <1>4 DEF k

LEMMA AdvanceStoppingFollows ==
    ASSUME NEW m, Good(m), m.command \notin Increment,
           m.phase \in StoppingPhases, NEW i \in Input
    PROVE  Follows(m, AdvanceStopping(m, i), i)
<1>1. m \in Motion /\ m.fault = None /\ Shape(m) /\ Latched(m)
  BY DEF Good, Live
<1>2. Follows(m, Fail(m, "MotionStopTimedOut"), i) /\ Follows(m, m, i)
  BY <1>1, FailFollows, GoodIsFine DEF Faults
<1>3. CASE AllStopped(i) /\ m.phase = "StoppingBounce"
  <2>1. m.active.path \in Paths
    BY <1>1, <1>3, PhaseSets DEF Shape, Motion, ActiveJog
  <2>2. Follows(m, StartBounceMove(m, m.active.path, i), i)
    BY <1>1, <1>2, <1>3, <2>1, StartBounceMoveFollows, PhaseSets DEF Free
  <2> QED BY <1>2, <1>3, <2>2 DEF AdvanceStopping
<1>4. CASE AllStopped(i) /\ m.phase = "StoppingReplace"
  <2>1. Follows(m, StartPending(To([m EXCEPT !.active = None], "Idle"), i), i)
    BY <1>4, NextJogFollows, PhaseSets DEF Free
  <2> QED BY <1>2, <1>4, <2>1 DEF AdvanceStopping
<1>5. CASE AllStopped(i) /\ m.phase = "StoppingCancel"
  <2>1. Follows(m, To([m EXCEPT !.active = None, !.pending = None], "Idle"), i)
    BY <1>5, StoodDownFollows, PhaseSets DEF Free
  <2> QED BY <1>2, <1>5, <2>1 DEF AdvanceStopping
<1>6. CASE AllStopped(i) /\ m.phase = "BounceReleaseStopping"
  <2>1. Follows(m, To([m EXCEPT !.active = None, !.pending = None,
                                !.interp = NewInterpreter],
                      "BounceReleaseWait"), i)
    BY <1>6, StoodDownFollows, PhaseSets
  <2> QED BY <1>2, <1>6, <2>1 DEF AdvanceStopping
<1>7. CASE ~AllStopped(i)
  BY <1>2, <1>7 DEF AdvanceStopping
<1> QED BY <1>3, <1>4, <1>5, <1>6, <1>7, PhaseSets

LEMMA AdvanceBounceFollows ==
    ASSUME NEW m, Good(m), m.command \notin Increment,
           m.phase \in {"Bouncing", "BounceReleaseJog"}, NEW i \in Input
    PROVE  Follows(m, AdvanceBounce(m, i), i)
<1>1. m \in Motion /\ m.fault = None
  BY DEF Good, Live
<1>2. /\ Follows(m, Fail(m, "MotionPathUnavailable"), i)
      /\ Follows(m, Fail(m, "JogCommandNotAccepted"), i)
      /\ Follows(m, Fail(m, "BounceTimedOut"), i)
  BY <1>1, FailFollows DEF Faults
<1>3. m.phase = "BounceReleaseJog" => Follows(m, FinishUnacceptedJog(m), i)
  BY FinishUnacceptedFollows
<1>4. Follows(m, CancelPendantMotion(m), i) /\ Follows(m, m, i)
  BY CancelFollows, GoodIsFine
<1> DEFINE f == FinishBounce(m, i)
<1>5. PathSettled(i) => Follows(m, f, i)
  BY FinishBounceFollows
<1>6. f.phase \in {"Bouncing", "BounceReleaseJog"} =>
          Follows(m, Fail(f, "BounceCountMismatch"), i)
  BY FinishBounceSafe, FailFollows DEF Faults, Live, Good
<1> HIDE DEF f
<1> QED
  BY <1>2, <1>3, <1>4, <1>5, <1>6 DEF AdvanceBounce, f

LEMMA AdvanceJogFollows ==
    ASSUME NEW m, Good(m), m.command \notin Increment,
           m.phase = "Idle", NEW i \in Input
    PROVE  Follows(m, AdvanceJog(m, i), i)
<1>1. m \in Motion /\ m.fault = None
  BY DEF Good, Live
<1>2. /\ Follows(m, Fail(m, "FeedbackUnusable"), i)
      /\ Follows(m, Fail(m, "JogTimedOut"), i)
      /\ Follows(m, Fail(m, "JogCountMismatch"), i)
  BY <1>1, FailFollows DEF Faults
<1>3. Follows(m, FinishUnacceptedJog(m), i)
  BY FinishUnacceptedFollows
<1>4. Follows(m, CancelPendantMotion(m), i) /\ Follows(m, m, i)
  BY CancelFollows, GoodIsFine
<1>5. PathSettled(i) /\ TargetReached(i) =>
          Follows(m, StartPending(To([m EXCEPT !.active = None], "Idle"), i), i)
  BY NextJogFollows, PhaseSets DEF Free
<1> QED
  BY <1>2, <1>3, <1>4, <1>5 DEF AdvanceJog

LEMMA ObserveFields ==
    ASSUME NEW m, Good(m), m.active # None, NEW i
    PROVE  LET o == Observe(m, i)
           IN  /\ Good(o) /\ o.active # None /\ o.phase = m.phase
               /\ o.active.motor = m.active.motor
               /\ o.active.delta = m.active.delta
               /\ o.collision = m.collision /\ o.command = m.command
<1> DEFINE e == Elapse(m.active.elapsed)
           b == m.active.seen \/ WheelActive(i)
           a == ObserveMotion(m.active, i)
           o == Observe(m, i)
<1>1. m.active \in ActiveJog /\ m \in Motion
  BY DEF Good, Live, Motion
<1>2. e \in Timer /\ b \in BOOLEAN
  BY <1>1, TimerFacts DEF WheelActive, ActiveJog
<1>3. a = [m.active EXCEPT !.elapsed = e, !.seen = b]
  BY DEF ObserveMotion
<1> HIDE DEF e, b, a
<1>4. /\ a \in ActiveJog /\ a.motor = m.active.motor
      /\ a.delta = m.active.delta
  BY <1>1, <1>2, <1>3 DEF ActiveJog
<1>5. o = [m EXCEPT !.active = a] /\ a # None
  BY <1>4, NoneFacts DEF Observe, a
<1> HIDE DEF o
<1>6. /\ o \in Motion /\ o.active = a /\ o.phase = m.phase
      /\ o.fault = m.fault /\ o.pending = m.pending /\ o.command = m.command
      /\ o.collision = m.collision /\ o.limitReset = m.limitReset
      /\ o.mode = m.mode /\ o.homingWas = m.homingWas
  BY <1>1, <1>4, <1>5 DEF Motion
<1>7. Live(o) /\ Shape(o) /\ Latched(o)
  BY <1>5, <1>6 DEF Good, Live, Shape, Latched
<1> QED BY <1>4, <1>5, <1>6, <1>7 DEF o, Good

LEMMA AdvanceActiveFollows ==
    ASSUME NEW m, Good(m), m.command \notin Increment, m.active # None,
           NEW i \in Input
    PROVE  Follows(m, AdvanceActive(m, i), i)
<1> DEFINE o == Observe(m, i)
<1>1. /\ Good(o) /\ o.active # None /\ o.phase = m.phase
      /\ o.active.motor = m.active.motor /\ o.active.delta = m.active.delta
      /\ o.collision = m.collision /\ o.command = m.command
  BY ObserveFields
<1> HIDE DEF o
<1>2. o.phase \in StoppingPhases \cup {"Bouncing", "BounceReleaseJog", "Idle"}
  BY <1>1 DEF Good, Shape, MovingPhases
<1>3. o.phase \in StoppingPhases => Follows(o, AdvanceStopping(o, i), i)
  BY <1>1, AdvanceStoppingFollows
<1>4. o.phase \in {"Bouncing", "BounceReleaseJog"} =>
          Follows(o, AdvanceBounce(o, i), i)
  BY <1>1, AdvanceBounceFollows
<1>5. o.phase = "Idle" => Follows(o, AdvanceJog(o, i), i)
  BY <1>1, AdvanceJogFollows
<1>6. Follows(o, AdvanceActive(m, i), i)
  BY <1>1, <1>2, <1>3, <1>4, <1>5 DEF AdvanceActive, o
<1> QED BY <1>1, <1>6, FollowsSame

(* advance_motion(): as the others, but a latch that reads clear ends the   *)
(* attribution.                                                             *)
Releases(m, i) == m.phase = "BounceResetValidate" /\ i.safety = {}
Advances(m, n, i) ==
    Fine(n) /\ Steers(m, n, i) /\ (Holds(m, n) \/ Releases(m, i))

LEMMA AdvanceMotionAdvances ==
    ASSUME NEW m, Good(m), m.command \notin Increment, NEW i \in Input
    PROVE  Advances(m, AdvanceMotion(m, i), i)
<1> DEFINE e == Elapse(m.phaseTotal)
           c == CountTotal(m)
           n == AdvanceMotion(m, i)
<1>1. m \in Motion /\ e \in Timer
  BY TimerFacts DEF Good, Live, Motion
<1>2. c \in {m, [m EXCEPT !.phaseTotal = e]}
  BY DEF CountTotal
<1> HIDE DEF e, c
<1>3. /\ c \in Motion /\ c.active = m.active /\ c.phase = m.phase
      /\ c.fault = m.fault /\ c.pending = m.pending /\ c.command = m.command
      /\ c.collision = m.collision /\ c.limitReset = m.limitReset
      /\ c.mode = m.mode /\ c.homingWas = m.homingWas
  BY <1>1, <1>2 DEF Motion
<1>4. Good(c)
  BY <1>3 DEF Good, Live, Shape, Latched
<1>5. Follows(c, Fail(c, "BounceTimedOut"), i) /\ Follows(c, c, i)
  BY <1>4, FailFollows, GoodIsFine DEF Faults, Good, Live
<1>6. c.phase = "BounceReleaseWait" => Follows(c, AdvanceReleaseWait(c, i), i)
  BY <1>3, <1>4, AdvanceReleaseWaitFollows
<1>7. c.active # None => Follows(c, AdvanceActive(c, i), i)
  BY <1>3, <1>4, AdvanceActiveFollows
<1>8. c.active = None /\ c.phase = "Idle" => Follows(c, StartPending(c, i), i)
  BY <1>4, StartPendingFollows
<1>9. CASE c.phase \in {"BounceResetAssert", "BounceResetValidate"}
  <2> DEFINE k == AdvanceLatchReset(c, i)
  <2>1. \/ Follows(c, k, i)
        \/ /\ Fine(k) /\ k.active = None /\ c.active = None
           /\ c.phase = "BounceResetValidate" /\ i.safety = {}
    BY <1>3, <1>4, <1>9, AdvanceLatchResetFollows
  <2>2. n \in {Fail(c, "BounceTimedOut"), k}
    BY <1>9 DEF AdvanceMotion, c
  <2> HIDE DEF k, n
  <2>3. CASE Follows(c, n, i)
    <3>1. Follows(m, n, i)
      BY <1>3, <2>3, FollowsSame
    <3> QED BY <3>1 DEF Follows, Advances, n
  <2>4. CASE /\ Fine(n) /\ c.active = None
             /\ c.phase = "BounceResetValidate" /\ i.safety = {}
    BY <1>3, <2>4 DEF Advances, Releases, Steers, n
  <2> QED BY <1>5, <2>1, <2>2, <2>3, <2>4 DEF n
<1>10. CASE c.phase \notin {"BounceResetAssert", "BounceResetValidate"}
  <2>1. n \in {Fail(c, "BounceTimedOut"), c}
            \cup (IF c.phase = "BounceReleaseWait"
                  THEN {AdvanceReleaseWait(c, i)} ELSE {})
            \cup (IF c.active # None THEN {AdvanceActive(c, i)} ELSE {})
            \cup (IF c.active = None /\ c.phase = "Idle"
                  THEN {StartPending(c, i)} ELSE {})
    BY <1>10 DEF AdvanceMotion, c
  <2> HIDE DEF n
  <2>2. Follows(c, n, i)
    BY <1>5, <1>6, <1>7, <1>8, <2>1
  <2>3. Follows(m, n, i)
    BY <1>3, <2>2, FollowsSame
  <2> QED BY <2>3 DEF Follows, Advances, n
<1> QED BY <1>9, <1>10

LEMMA FineGood ==
    ASSUME NEW m, Fine(m)
    PROVE  /\ m.fault = None => Good(m)
           /\ m.fault # None => m.active = None /\ m.pending = None
                                /\ m.phase = "Idle" /\ m.collision = None
BY DEF Fine, Safe, Good, Live, Inert

LEMMA DrainPendingFollows ==
    ASSUME NEW m, Fine(m), NEW i \in Input
    PROVE  LET n == DrainPending(m, i)
           IN  n = m \/ (m.pending # None /\ m.fault = None /\ Follows(m, n, i))
<1> DEFINE n == DrainPending(m, i)
           k == [m EXCEPT !.pending = None]
<1>1. CASE n = m
  BY <1>1
<1>2. CASE n # m
  <2>1. m.phase = "Idle" /\ m.pending # None
    BY <1>2 DEF DrainPending
  <2>2. Good(m) /\ m.fault = None
    BY <2>1, FineGood
  <2>3. m.pending \in Intent /\ m.mode
    BY <2>1, <2>2 DEF Good, Live, Motion, Shape
  <2>4. /\ Good(k) /\ k.phase = "Idle" /\ k.mode
        /\ k.active = m.active /\ k.collision = m.collision
    BY <2>1, <2>2, <2>3, PendingFollows
  <2> HIDE DEF k
  <2>5. k.active = None => Follows(k, StartJog(k, m.pending, i), i)
    BY <2>3, <2>4, StartJogFollows
  <2>6. Follows(k, RequestJog(k, m.pending, i), i)
    BY <2>3, <2>4, RequestJogFollows
  <2>7. Follows(k, n, i)
    BY <1>2, <2>4, <2>5, <2>6 DEF DrainPending, k
  <2> HIDE DEF n
  <2>8. Follows(m, n, i)
    BY <2>4, <2>7, FollowsSame
  <2> QED BY <2>1, <2>2, <2>8 DEF n
<1> QED BY <1>1, <1>2

(* limits.rs: homing and the limit check leave no increment and do not      *)
(* enter the phase in which a latch is read back.                           *)
LEMMA ManageHomingFollows ==
    ASSUME NEW m, Good(m), m.command \notin Increment, NEW i \in Input
    PROVE  LET n == ManageHomingLatches(m, i)
           IN  /\ Good(n) /\ n.active = m.active /\ n.collision = m.collision
               /\ n.command \notin Increment
               /\ n.phase = "BounceResetValidate" =>
                      m.phase = "BounceResetValidate"
<1> DEFINE w == Elapse(m.homingElapsed)
           h == [m EXCEPT !.homingWas = TRUE, !.homingElapsed = 0]
           n == ManageHomingLatches(m, i)
<1>1. m \in Motion /\ m.fault = None /\ Shape(m) /\ Latched(m)
  BY DEF Good, Live
<1>2. w \in Timer /\ 0 \in Timer /\ i.safety \in SUBSET Motors
  BY <1>1, TimerFacts DEF Motion, Input
<1> HIDE DEF w
<1>3. /\ h \in Motion /\ h.active = m.active /\ h.phase = m.phase
      /\ h.fault = m.fault /\ h.pending = m.pending /\ h.command = m.command
      /\ h.collision = m.collision /\ h.homingWas /\ h.mode = m.mode
  BY <1>1, <1>2 DEF Motion
<1> HIDE DEF h
<1>4. Good(h)
  BY <1>3 DEF Good, Live, Shape, Latched
<1>5. CASE i.homing
  <2>1. n = CancelPendantMotion(h)
    BY <1>5 DEF ManageHomingLatches, h
  <2>2. n.command \in {h.command, JogStop}
    <3>1. h \in Motion
      BY <1>3
    <3> QED BY <2>1, <3>1 DEF CancelPendantMotion, To, Motion
  <2> HIDE DEF n
  <2>3. Good(n) /\ n.active = h.active /\ n.collision = h.collision
        /\ (n.phase = "BounceResetValidate" => h.phase = "BounceResetValidate")
    BY <1>4, <2>1, CancelFollows
  <2> QED BY <1>3, <2>2, <2>3, NotIncrements DEF n
<1>6. CASE ~i.homing
  <2>1. \/ n = m
        \/ /\ m.homingWas
           /\ n \in {[m EXCEPT !.limitReset = i.safety, !.homingElapsed = 0],
                     [m EXCEPT !.homingElapsed = w],
                     [m EXCEPT !.limitReset = {}, !.homingElapsed = 0]}
        \/ /\ m.limitReset = {}
           /\ n = [m EXCEPT !.homingWas = FALSE, !.homingElapsed = 0]
    BY <1>6 DEF ManageHomingLatches, w
  <2> HIDE DEF n
  <2>2. /\ n \in Motion /\ n.active = m.active /\ n.phase = m.phase
        /\ n.fault = m.fault /\ n.pending = m.pending /\ n.command = m.command
        /\ n.collision = m.collision /\ n.mode = m.mode
        /\ n = m \/ n.homingWas \/ n.limitReset = {}
    <3>1. CASE n = m
      BY <1>1, <3>1
    <3>2. CASE n = [m EXCEPT !.limitReset = i.safety, !.homingElapsed = 0]
      BY <1>1, <1>2, <2>1, <3>2 DEF Motion
    <3>3. CASE n = [m EXCEPT !.homingElapsed = w]
      BY <1>1, <1>2, <2>1, <3>3 DEF Motion
    <3>4. CASE n = [m EXCEPT !.limitReset = {}, !.homingElapsed = 0]
      BY <1>1, <1>2, <2>1, <3>4 DEF Motion
    <3>5. CASE /\ m.limitReset = {}
               /\ n = [m EXCEPT !.homingWas = FALSE, !.homingElapsed = 0]
      BY <1>1, <1>2, <3>5 DEF Motion
    <3> QED BY <2>1, <3>1, <3>2, <3>3, <3>4, <3>5
  <2>4. Good(n)
    BY <2>2 DEF Good, Live, Shape, Latched
  <2> QED BY <2>2, <2>4 DEF n
<1> QED BY <1>5, <1>6

LEMMA CheckLimitsFollows ==
    ASSUME NEW m, Good(m), m.command \notin Increment, NEW i \in Input
    PROVE  LET n == CheckLimits(m, i)
           IN  /\ Follows(m, n, i) /\ n.command \notin Increment
               /\ n.fault # None \/ n.active = m.active
               /\ n.phase = "BounceResetValidate" =>
                      m.phase = "BounceResetValidate"
<1> DEFINE n == CheckLimits(m, i)
<1>1. m \in Motion /\ m.fault = None
  BY DEF Good, Live
<1>2. ASSUME NEW code \in {"BounceLostLimitAttribution", "UnexpectedLimit"}
      PROVE  LET f == Fail(m, code)
             IN  /\ Follows(m, f, i) /\ f.command \notin Increment
                 /\ f.phase = "Idle" /\ f.fault # None
  <2>1. code \in Faults
    BY DEF Faults
  <2> QED BY <1>1, <2>1, FailFollows, FailFields, NotIncrements
<1>3. CASE n = m
  BY <1>3, GoodIsFine
<1>4. CASE \/ n = Fail(m, "BounceLostLimitAttribution")
           \/ n = Fail(m, "UnexpectedLimit")
  BY <1>2, <1>4
<1>5. CASE /\ m.phase \notin BouncePhases /\ m.active # None
           /\ n = BeginBounce(m, m.active.motor)
  <2>1. m.active.motor \in Motors
    BY <1>1, <1>5 DEF Motion, ActiveJog
  <2>2. n.active = m.active
    <3> DEFINE d == [m EXCEPT !.command = JogStopImmediate, !.pending = None,
                              !.collision = m.active.motor,
                              !.bounceStarted = FALSE]
    <3>1. n = To(d, "StoppingBounce")
      BY <1>5 DEF BeginBounce
    <3>2. d \in Motion /\ d.active = m.active
      BY <1>1, <2>1, CommandFacts, ZenonT(30) DEF Motion
    <3> HIDE DEF n, d
    <3>3. "StoppingBounce" \in Phases
      BY PhaseFacts
    <3> QED BY <3>1, <3>2, <3>3, ToType
  <2> QED BY <1>5, <2>1, <2>2, BeginBounceFollows
<1> QED BY <1>3, <1>4, <1>5 DEF CheckLimits

(* A fresh interpreter takes the packet for a baseline: it starts nothing.  *)
LEMMA OnPacketFollows ==
    ASSUME NEW m, Good(m), NEW i \in Input
    PROVE  LET n == OnPacket(m, i)
           IN  /\ Follows(m, n, i)
               /\ m.active = None /\ m.interp = NewInterpreter =>
                      n.active = None
<1> DEFINE d == Decision(m.interp, i.packet)
           k == [m EXCEPT !.interp = Interpreted(m.interp, i.packet)]
           n == OnPacket(m, i)
<1>1. m \in Motion /\ m.fault = None
  BY DEF Good, Live
<1>2. CASE i.packet = None \/ ~m.mode
  BY <1>2, GoodIsFine DEF OnPacket
<1>3. CASE i.packet # None /\ m.mode
  <2>1. i.packet \in Sample
    BY <1>3 DEF Input
  <2>2. Interpreted(m.interp, i.packet) \in Interpreter
    BY <1>1, <2>1, InterpreterFacts DEF Motion
  <2>3. /\ k \in Motion /\ k.active = m.active /\ k.phase = m.phase
        /\ k.fault = m.fault /\ k.pending = m.pending
        /\ k.command = m.command /\ k.limitReset = m.limitReset
        /\ k.collision = m.collision /\ k.mode = m.mode
        /\ k.homingWas = m.homingWas
    BY <1>1, <2>2 DEF Motion
  <2> HIDE DEF k
  <2>4. Good(k)
    BY <2>3 DEF Good, Live, Shape, Latched
  <2>5. d = "Jog" => IntentOf(i.packet) \in Intent
    BY <2>1, IntentType
  <2>6. d = "Jog" =>
            /\ Follows(k, StartLimitReleaseJog(k, IntentOf(i.packet), i), i)
            /\ Follows(k, RequestJog(k, IntentOf(i.packet), i), i)
    BY <1>3, <2>3, <2>4, <2>5, StartLimitReleaseJogFollows, RequestJogFollows
  <2>7. /\ Follows(k, CancelPendantMotion(k), i) /\ Follows(k, k, i)
        /\ Follows(k, Fail(k, "InvalidPendantPacket"), i)
        /\ CancelPendantMotion(k).active = k.active
    BY <2>3, <2>4, <1>1, CancelFollows, GoodIsFine, FailFollows DEF Faults
  <2>8. m.interp = NewInterpreter => d = "Stop"
    BY DEF Decision, IsBaseline, NewInterpreter
  <2>9. \/ n = m
        \/ n = OnLimitReleasePacket(m, i)
        \/ n = OnJogPacket(m, i)
    BY <1>3 DEF OnPacket
  <2>10. \/ n = m
         \/ d # "Stop" /\ Follows(k, n, i)
         \/ n = CancelPendantMotion(k)
    <3>1. \/ n = m
          \/ d = "Stop" /\ n = CancelPendantMotion(k)
          \/ d = "Fault" /\ n = Fail(k, "InvalidPendantPacket")
          \/ d = "Jog" /\ n = StartLimitReleaseJog(k, IntentOf(i.packet), i)
          \/ d = "Jog" /\ n = RequestJog(k, IntentOf(i.packet), i)
          \/ d # "Stop" /\ n = k
      BY <2>9 DEF OnLimitReleasePacket, OnJogPacket, k
    <3> HIDE DEF n, d
    <3> QED BY <2>6, <2>7, <3>1
  <2> HIDE DEF n
  <2>11. Follows(k, n, i) => Follows(m, n, i)
    BY <2>3, FollowsSame
  <2>12. n = m => Follows(m, n, i)
    BY GoodIsFine
  <2> QED
    BY <2>3, <2>7, <2>8, <2>10, <2>11, <2>12 DEF n
<1> QED BY <1>2, <1>3

(* The jog branch of update(): the jog it leaves turns another way only     *)
(* with the consumer's leave.                                               *)
Turns(m, n, i) ==
    Free(i) \/ m.active = None \/ n.active = None
        \/ /\ n.active.motor = m.active.motor
           /\ SameSign(n.active.delta, m.active.delta)

LEMMA SteersOn ==
    ASSUME NEW m, NEW v, NEW n, NEW i, Steers(m, v, i),
           v.fault = None, Steers(v, n, i),
           v.active = None /\ v.interp = NewInterpreter => n.active = None
    PROVE  Turns(m, n, i)
BY DEF Steers, Turns, SameSign

LEMMA RunMotionAdvances ==
    ASSUME NEW m, Good(m), m.command \notin Increment, NEW i \in Input
    PROVE  LET n == RunMotion(m, i)
           IN  /\ Fine(n) /\ Turns(m, n, i)
               /\ Holds(m, n) \/ Releases(m, i)
<1> DEFINE h == ManageHomingLatches(m, i)
           c == CheckLimits(h, i)
           a == AdvanceMotion(c, i)
           v == IF c.fault # None THEN c ELSE DrainPending(a, i)
           n == RunMotion(m, i)
<1>1. /\ Good(h) /\ h.active = m.active /\ h.collision = m.collision
      /\ h.command \notin Increment
      /\ h.phase = "BounceResetValidate" => m.phase = "BounceResetValidate"
  BY ManageHomingFollows
<1> HIDE DEF h
<1>2. /\ Fine(c) /\ Holds(h, c) /\ c.command \notin Increment
      /\ c.fault # None \/ c.active = h.active
      /\ c.phase = "BounceResetValidate" => h.phase = "BounceResetValidate"
  BY <1>1, CheckLimitsFollows DEF Follows
<1> HIDE DEF c
<1>3. n = IF v.fault # None THEN v ELSE OnPacket(v, i)
  BY DEF RunMotion, v, c, h
<1>4. CASE c.fault # None
  <2>1. n = c /\ c.active = None
    BY <1>2, <1>3, <1>4, FineGood
  <2> HIDE DEF n
  <2> QED BY <1>1, <1>2, <1>4, <2>1 DEF Turns, Holds, n
<1>5. CASE c.fault = None
  <2>1. Good(c)
    BY <1>2, <1>5, FineGood
  <2>2. Advances(c, a, i)
    BY <1>2, <2>1, AdvanceMotionAdvances
  <2> HIDE DEF a
  <2>3. Fine(a) /\ Steers(c, a, i) /\ (Holds(c, a) \/ Releases(c, i))
    BY <2>2 DEF Advances
  <2>4. v = DrainPending(a, i)
    BY <1>5
  <2> HIDE DEF v
  <2>5. v = a \/ (a.pending # None /\ a.fault = None /\ Follows(a, v, i))
    BY <2>3, <2>4, DrainPendingFollows
  <2>6. Fine(v) /\ Steers(c, v, i) /\ (Holds(c, v) \/ Releases(c, i))
    <3>1. CASE v = a
      BY <2>3, <3>1
    <3>2. CASE a.pending # None /\ a.fault = None /\ Follows(a, v, i)
      <4>1. Fine(v) /\ Steers(a, v, i) /\ Holds(a, v)
        BY <3>2 DEF Follows
      <4>2. Steers(c, v, i)
        BY <2>3, <3>2, <4>1 DEF Steers, SameSign
      <4>3. Holds(c, a) => Holds(c, v)
        BY <3>2, <4>1 DEF Holds
      <4> QED BY <2>3, <4>1, <4>2, <4>3
    <3> QED BY <2>5, <3>1, <3>2
  <2>7. /\ Fine(n) /\ Turns(c, n, i)
        /\ Holds(c, n) \/ Releases(c, i)
    <3>1. CASE v.fault # None
      <4>1. n = v /\ v.active = None
        BY <1>3, <2>6, <3>1, FineGood
      <4> HIDE DEF n
      <4> QED BY <2>6, <4>1 DEF Turns
    <3>2. CASE v.fault = None
      <4>1. Good(v) /\ n = OnPacket(v, i)
        BY <1>3, <2>6, <3>2, FineGood
      <4> HIDE DEF n
      <4>2. /\ Follows(v, n, i)
            /\ v.active = None /\ v.interp = NewInterpreter => n.active = None
        BY <4>1, OnPacketFollows
      <4>3. Fine(n) /\ Steers(v, n, i) /\ Holds(v, n)
        BY <4>2 DEF Follows
      <4>4. Turns(c, n, i)
        BY <2>6, <3>2, <4>2, <4>3, SteersOn
      <4>5. Holds(c, v) => Holds(c, n)
        BY <3>2, <4>3 DEF Holds
      <4> QED BY <2>6, <4>3, <4>4, <4>5
    <3> QED BY <3>1, <3>2
  <2> HIDE DEF n
  <2>8. Turns(m, n, i)
    BY <1>1, <1>2, <1>5, <2>7 DEF Turns
  <2>9. Holds(m, n) \/ Releases(m, i)
    BY <1>1, <1>2, <1>5, <2>7 DEF Holds, Releases
  <2> QED BY <2>7, <2>8, <2>9 DEF n
<1> QED BY <1>4, <1>5
-----------------------------------------------------------------------------
(* The second inductive invariant: Shape, and how the motion goes with the  *)
(* power sequence.  Motion rests before the startup decision, during the    *)
(* gesture and after Clear Fault, so that the reset that follows forgets    *)
(* neither a jog nor a limit; no step of the power sequence has a jog; its  *)
(* latch reset is the one of its mask; an increment needs all of it over.   *)
JogInv(st, r, p, m) ==
    /\ Shape(m)
    /\ st \/ RecoveryActive(r) \/ p.step = "AwaitUiReset" =>
          m.phase = "Idle" /\ m.active = None /\ m.limitReset = {}
    /\ p.step # "None" => m.active = None
    /\ IF p.step = "LimitResetAssert" THEN m.limitReset = p.mask
                                      ELSE Latched(m)
    /\ m.command \in Increment =>
          p.gate /\ p.step = "None" /\ ~RecoveryActive(r)

(* What a handler of update() keeps of the record BeginCycle hands it.      *)
Kept(m, i) ==
    /\ \/ m.collision = None \/ motion'.collision = m.collision
       \/ motion'.command = JogStopImmediate \/ Releases(m, i)
    /\ Turns(m, motion', i)
    /\ m.active # None /\ motion'.active = None /\ Interrupts =>
           motion'.command = JogStopImmediate

(* begin_update: no increment of the last cycle is left, and what the mode  *)
(* switch stops keeps its jog and its limit.                                *)
LEMMA BeginCycleJogs ==
    ASSUME NEW st, NEW r, NEW p, NEW m, PowerInv(st, r, p, m),
           JogInv(st, r, p, m), NEW i \in Input
    PROVE  LET n == BeginCycle(m, i)
           IN  /\ JogInv(st, r, p, n) /\ n.command \notin Increment
               /\ n.active = m.active /\ n.collision = m.collision
               /\ n.fault = m.fault
               /\ n.phase = "BounceResetValidate" =>
                      m.phase = "BounceResetValidate"
<1> DEFINE e == Elapse(m.phaseElapsed)
           k == IF m.phase \in ClockedPhases
                THEN [m EXCEPT !.phaseElapsed = e] ELSE m
           c == [k EXCEPT !.command = None]
           b == [c EXCEPT !.mode = i.mode, !.interp = NewInterpreter,
                          !.pending = None]
           d == [b EXCEPT !.pending = None]
           f == [d EXCEPT !.command = JogStop]
           n == BeginCycle(m, i)
<1>1. m \in Motion /\ e \in Timer /\ i.mode \in BOOLEAN
  BY MotionInvFacts, TimerFacts DEF PowerInv, Motion, Input
<1>2. n = SetPendantMode(c, i.mode)
  BY DEF BeginCycle
<1> HIDE DEF e, n
<1>3. /\ k \in Motion /\ k.phase = m.phase /\ k.active = m.active
      /\ k.fault = m.fault /\ k.collision = m.collision
      /\ k.limitReset = m.limitReset /\ k.pending = m.pending
      /\ k.homingWas = m.homingWas /\ k.mode = m.mode
  BY <1>1 DEF Motion
<1> HIDE DEF k
<1>4. /\ c \in Motion /\ c.phase = m.phase /\ c.active = m.active
      /\ c.fault = m.fault /\ c.collision = m.collision
      /\ c.limitReset = m.limitReset /\ c.pending = m.pending
      /\ c.homingWas = m.homingWas /\ c.mode = m.mode /\ c.command = None
  BY <1>3 DEF Motion
<1>5. /\ n = c \/ n = b \/ n = CancelPendantMotion(b)
  BY <1>2 DEF SetPendantMode
<1> HIDE DEF c
<1>6. /\ b \in Motion /\ b.phase = m.phase /\ b.active = m.active
      /\ b.fault = m.fault /\ b.collision = m.collision
      /\ b.limitReset = m.limitReset /\ b.pending = None
      /\ b.homingWas = m.homingWas /\ b.command = None
  BY <1>1, <1>4, InterpreterFacts, ZenonT(30) DEF Motion
<1> HIDE DEF b
<1>7. /\ d \in Motion /\ d.phase = m.phase /\ d.active = m.active
      /\ d.fault = m.fault /\ d.collision = m.collision
      /\ d.limitReset = m.limitReset /\ d.pending = None
      /\ d.homingWas = m.homingWas /\ d.command = None
  BY <1>6 DEF Motion
<1>8. n = CancelPendantMotion(b) =>
        n = IF b.active = None \/ b.phase = "StoppingCancel" THEN d
            ELSE IF b.phase = "BounceReleaseJog"
            THEN To(f, "BounceReleaseStopping")
            ELSE IF b.phase \in BouncePhases THEN d
            ELSE To(f, "StoppingCancel")
  BY DEF CancelPendantMotion
<1> HIDE DEF d
<1>9. /\ f \in Motion /\ f.phase = m.phase /\ f.active = m.active
      /\ f.fault = m.fault /\ f.collision = m.collision
      /\ f.limitReset = m.limitReset /\ f.pending = None
      /\ f.homingWas = m.homingWas /\ f.command = JogStop
  BY <1>7, CommandFacts DEF Motion
<1> HIDE DEF f
(* The records that keep the phase keep everything.                         *)
<1>10. CASE n \in {b, c, d}
  <2>1. /\ n.phase = m.phase /\ n.active = m.active /\ n.fault = m.fault
        /\ n.collision = m.collision /\ n.limitReset = m.limitReset
        /\ n.homingWas = m.homingWas /\ n.command \notin Increment
        /\ n.pending # None => n.pending = m.pending /\ n.mode = m.mode
    BY <1>4, <1>6, <1>7, <1>10, NotIncrements
  <2> QED BY <2>1 DEF JogInv, Shape, Latched, n
<1>11. ASSUME m.active # None,
              NEW ph \in {"BounceReleaseStopping", "StoppingCancel"},
              ph = "BounceReleaseStopping" <=> m.phase \in BouncePhases,
              m.phase # "BounceResetAssert", n = To(f, ph)
       PROVE  /\ JogInv(st, r, p, n) /\ n.command \notin Increment
              /\ n.active = m.active /\ n.collision = m.collision
              /\ n.fault = m.fault /\ n.phase # "BounceResetValidate"
  <2>1. ph \in Phases
    BY PhaseFacts
  <2>2. /\ n.phase = ph /\ n.active = m.active /\ n.fault = m.fault
        /\ n.collision = m.collision /\ n.limitReset = m.limitReset
        /\ n.homingWas = m.homingWas /\ n.command = JogStop
        /\ n.pending = None
    BY <1>9, <1>11, <2>1, ToType
  <2>3. n.command \notin Increment
    BY <2>2, NotIncrements
  <2>4. Shape(n)
    BY <1>11, <2>2, <2>3, PhaseSets DEF JogInv, Shape
  <2> QED BY <1>11, <2>2, <2>3, <2>4 DEF JogInv, Latched
<1>12. CASE n \notin {b, c, d}
  <2>1. m.active # None
    BY <1>5, <1>6, <1>8, <1>12
  <2>2. m.phase \in MovingPhases \cup {"Idle"}
    BY <2>1 DEF JogInv, Shape
  <2>3. CASE n = To(f, "BounceReleaseStopping") /\ b.phase = "BounceReleaseJog"
    BY <1>6, <1>11, <2>1, <2>3, PhaseSets DEF n
  <2>4. CASE n = To(f, "StoppingCancel") /\ b.phase \notin BouncePhases
    BY <1>6, <1>11, <2>1, <2>4, PhaseSets DEF n
  <2> QED BY <1>5, <1>8, <1>12, <2>3, <2>4
<1> QED BY <1>10, <1>12

(* Settle(): a fault leaves nothing, anything else is what was handed on.   *)
LEMMA FaultedJogs ==
    ASSUME NEW st, NEW r, NEW p \in Power, NEW m, Inert(m),
           m.command \notin Increment
    PROVE  JogInv(st, r, Dropped(p), m)
BY DroppedPower, PhaseSets DEF JogInv, Shape, Latched, Inert

LEMMA SettleJogs ==
    ASSUME NEW st, NEW r, NEW p \in Power, NEW m, MotionInv(m),
           m.fault # None => m.command = JogStopImmediate,
           m.fault = None => JogInv(st, r, p, m), Settle(r, p, m)
    PROVE  JogInv(st, recovery', power', motion') /\ motion' = m
<1>1. CASE m.fault # None
  <2>1. Inert(m) /\ m.command \notin Increment
    BY <1>1, MotionInvFacts, NotIncrements DEF Faulted
  <2>2. JogInv(st, r, Dropped(p), m)
    BY <2>1, FaultedJogs
  <2> QED BY <1>1, <2>2 DEF Settle
<1>2. CASE m.fault = None
  BY <1>2 DEF Settle
<1> QED BY <1>1, <1>2

LEMMA SettleFaultJogs ==
    ASSUME NEW st, NEW r, NEW p \in Power, NEW m \in Motion, m.fault = None,
           NEW code \in Faults, SettleFault(r, p, m, code)
    PROVE  /\ JogInv(st, recovery', power', motion')
           /\ motion'.command = JogStopImmediate /\ motion'.active = None
<1>1. /\ Fail(m, code).fault # None
      /\ Fail(m, code).command = JogStopImmediate
      /\ Fail(m, code).active = None
  BY FailFields
<1>2. MotionInv(Fail(m, code))
  BY FailSafe, SafeMotion
<1> QED BY <1>1, <1>2, SettleJogs DEF SettleFault

(* A gate that closes takes no jog with it.                                 *)
LEMMA ClosedJogs ==
    ASSUME NEW st, NEW r, NEW p \in Power, NEW m, JogInv(st, r, p, m),
           m.command \notin Increment
    PROVE  JogInv(st, r, Closed(p), m)
<1>1. Closed(p).step = p.step /\ Closed(p).mask = p.mask
  BY DEF Closed, Power
<1> QED BY <1>1 DEF JogInv

(* A record that differs only in what no conjunct reads, or in a latch      *)
(* reset that is over.                                                      *)
Like(m, n) ==
    /\ n.phase = m.phase /\ n.active = m.active /\ n.fault = m.fault
    /\ n.collision = m.collision /\ n.pending = m.pending /\ n.mode = m.mode
    /\ n.homingWas = m.homingWas /\ n.command = m.command

LEMMA LikeJogs ==
    ASSUME NEW st, NEW r, NEW p, NEW m, JogInv(st, r, p, m), NEW g, NEW q,
           NEW n, Like(m, n), m.active = None, m.command \notin Increment,
           n.limitReset \in {m.limitReset, {}},
           RecoveryActive(g) => RecoveryActive(r),
           q.step # "AwaitUiReset",
           q.step = "LimitResetAssert" =>
               /\ p.step = "LimitResetAssert" /\ q.mask = p.mask
               /\ n.limitReset = m.limitReset,
           p.step = "LimitResetAssert" =>
               q.step = p.step \/ n.limitReset = {}
    PROVE  JogInv(st, g, q, n)
BY DEF JogInv, Like, Shape, Latched

LEMMA RecoveredJogs ==
    ASSUME NEW st, NEW r, NEW p \in Power, NEW m, Live(m), JogInv(st, r, p, m),
           m.active = None, m.command \notin Increment,
           p.step # "LimitResetAssert", NEW o \in Power, Recovered(o, m)
    PROVE  /\ JogInv(st, recovery', power', motion')
           /\ motion'.collision = m.collision /\ motion'.active = None
<1> DEFINE q == Unpowered(NoRequests(o))
           n == [m EXCEPT !.interp = NewInterpreter]
<1>1. q \in Power /\ q.step = "None"
  BY PowerStepFacts DEF Unpowered, NoRequests, Power
<1>2. Live(n) /\ Like(m, n) /\ n.limitReset = m.limitReset
  BY InterpreterFacts DEF Live, Motion, Like
<1>3. Settle(InactiveRecovery, q, n)
  BY DEF Recovered
<1> HIDE DEF q, n
<1>4. ~RecoveryActive(InactiveRecovery)
  BY DEF RecoveryActive, InactiveRecovery
<1>5. JogInv(st, InactiveRecovery, q, n)
  BY <1>1, <1>2, <1>4, LikeJogs
<1>6. MotionInv(n) /\ n.fault = None
  BY <1>2 DEF MotionInv, Live
<1>7. JogInv(st, recovery', power', motion') /\ motion' = n
  BY <1>1, <1>3, <1>5, <1>6, SettleJogs
<1> QED BY <1>2, <1>7 DEF Like

(* advance_recovery() moves no jog: it only ends latch resets.              *)
Rests(st, m) ==
    /\ JogInv(st, recovery', power', motion')
    /\ \/ motion'.collision = m.collision
       \/ motion'.command = JogStopImmediate
    /\ motion'.active = None

LEMMA AdvanceRecoveryJogs ==
    ASSUME NEW st, NEW r, NEW p, NEW m, PowerInv(st, r, p, m),
           JogInv(st, r, p, m), m.fault = None, m.command \notin Increment,
           NEW i \in Input, AdvanceRecovery(r, p, m, i)
    PROVE  Rests(st, m)
<1> DEFINE t == TickedPower(p)
<1>1. p \in Power /\ m \in Motion /\ MotionInv(m)
  BY MotionInvFacts DEF PowerInv
<1>2. t \in Power /\ t.step = p.step /\ t.mask = p.mask
  BY <1>1, TickedFacts
<1> HIDE DEF t
<1>3. JogInv(st, r, t, m)
  <2>1. m.command \notin Increment
    OBVIOUS
  <2> QED BY <1>2, <2>1 DEF JogInv
<1>4. ASSUME SettleFault(r, p, m, "LimitDuringRecovery") PROVE Rests(st, m)
  BY <1>1, <1>4, SettleFaultJogs DEF Faults, Rests
<1>5. ASSUME SettleFault(r, t, m, "LimitLatchResetTimedOut")
      PROVE  Rests(st, m)
  BY <1>1, <1>2, <1>5, SettleFaultJogs DEF Faults, Rests
<1>6. ASSUME t.step \in LatchSteps \cup AskingSteps,
             t.step # "AwaitUiReset"
      PROVE  /\ m.active = None /\ Live(m)
             /\ Settle(r, t, m) => Rests(st, m)
  <2>1. m.active = None /\ Live(m)
    BY <1>1, <1>2, <1>6, MotionInvFacts
       DEF JogInv, PowerInv, LatchSteps, AskingSteps
  <2> QED BY <1>1, <1>2, <1>3, <2>1, SettleJogs DEF Rests
<1>7. ASSUME m.active = None, Live(m), NEW q \in Power, NEW n, Live(n),
             Like(m, n), n.limitReset \in {m.limitReset, {}},
             q.step \notin {"AwaitUiReset", "LimitResetAssert"},
             t.step = "LimitResetAssert" => n.limitReset = {},
             Settle(r, q, n)
      PROVE  Rests(st, m)
  <2>1. JogInv(st, r, q, n)
    BY <1>3, <1>7, LikeJogs
  <2>2. MotionInv(n) /\ n.fault = None
    BY <1>7 DEF MotionInv, Live
  <2>3. JogInv(st, recovery', power', motion') /\ motion' = n
    BY <1>7, <2>1, <2>2, SettleJogs
  <2> QED BY <1>7, <2>3 DEF Rests, Like
<1>8. CASE AdvanceLimitReset(r, t, m, i)
  <2>1. t.step \in {"LimitResetAssert", "LimitResetValidate"}
    BY <1>8 DEF AdvanceLimitReset
  <2>2. m.active = None /\ Live(m) /\ (Settle(r, t, m) => Rests(st, m))
    BY <1>6, <2>1 DEF LatchSteps
  <2>3. CASE /\ t.step = "LimitResetAssert"
             /\ Settle(r, [AtStep(t, "LimitResetValidate") EXCEPT
                              !.mask = t.mask],
                       [m EXCEPT !.limitReset = {}])
    <3> DEFINE a == AtStep(t, "LimitResetValidate")
               q == [a EXCEPT !.mask = t.mask]
               n == [m EXCEPT !.limitReset = {}]
    <3>1. a \in Power /\ a.step = "LimitResetValidate"
      BY <1>2, AtStepFacts, PowerStepFacts DEF LatchSteps
    <3> HIDE DEF a
    <3>2. q \in Power /\ q.step = "LimitResetValidate"
      BY <1>2, <3>1 DEF Power
    <3>3. Live(n) /\ Like(m, n) /\ n.limitReset = {}
      BY <2>2 DEF Live, Motion, Like
    <3>4. Settle(r, q, n)
      BY <2>3 DEF a
    <3> HIDE DEF q, n
    <3> QED BY <1>7, <2>2, <3>2, <3>3, <3>4
  <2>4. CASE /\ t.step = "LimitResetValidate"
             /\ Settle(r, Opened(AtStep(t, "GateSettle")), m)
    <3> DEFINE a == AtStep(t, "GateSettle")
               q == Opened(a)
    <3>1. a \in Power /\ a.step = "GateSettle"
      BY <1>2, AtStepFacts, PowerStepFacts DEF AskingSteps
    <3> HIDE DEF a
    <3>2. q \in Power /\ q.step = "GateSettle"
      BY <3>1 DEF Opened, Power
    <3>3. Settle(r, q, m)
      BY <2>4 DEF a
    <3> HIDE DEF q
    <3> QED BY <1>7, <2>2, <2>4, <3>2, <3>3 DEF Like
  <2> QED BY <1>5, <1>8, <2>2, <2>3, <2>4 DEF AdvanceLimitReset
<1>9. CASE AdvanceRequests(r, t, m, i)
  <2>1. t.step \in {"GateSettle", "WaitReset", "WaitOn"}
    BY <1>9 DEF AdvanceRequests
  <2>2. m.active = None /\ Live(m) /\ (Settle(r, t, m) => Rests(st, m))
    BY <1>6, <2>1 DEF AskingSteps
  <2>3. ASSUME NEW s \in {"WaitReset", "WaitOn"}, NEW x \in BOOLEAN,
               NEW y \in BOOLEAN,
               Settle(r, [AtStep(t, s) EXCEPT !.estopReset = x,
                                              !.machineOn = y], m)
        PROVE  Rests(st, m)
    <3> DEFINE a == AtStep(t, s)
               q == [a EXCEPT !.estopReset = x, !.machineOn = y]
    <3>1. a \in Power /\ a.step = s
      BY <1>2, AtStepFacts, PowerStepFacts DEF AskingSteps
    <3> HIDE DEF a
    <3>2. q \in Power /\ q.step = s
      BY <3>1 DEF Power
    <3>3. Settle(r, q, m)
      BY <2>3 DEF a
    <3> HIDE DEF q
    <3> QED BY <1>7, <2>1, <2>2, <3>2, <3>3 DEF Like
  <2>4. ASSUME NEW o \in Power, Recovered(o, m) PROVE Rests(st, m)
    BY <1>2, <1>3, <2>1, <2>2, <2>4, RecoveredJogs DEF Rests
  <2>5. [t EXCEPT !.restore = FALSE] \in Power
    BY <1>2 DEF Power
  <2> QED BY <1>2, <1>9, <2>2, <2>3, <2>4, <2>5, Zenon DEF AdvanceRequests
<1> QED BY <1>4, <1>8, <1>9 DEF AdvanceRecovery, t

(* What an operation of the supervisor does to the invariant and the jog.   *)
Jogs(m, i) ==
    JogInv(startup', recovery', power', motion') /\ Kept(m, i)

(* A handler that leaves no jog behind has nothing to turn or forget.       *)
LEMMA RestsKept ==
    ASSUME NEW st, NEW m, NEW i, Rests(st, m), startup' = st,
           m.active = None \/ motion'.command = JogStopImmediate
    PROVE  Jogs(m, i)
BY DEF Rests, Jogs, Kept, Turns

(* The branches of update(), each from the record BeginCycle hands it.      *)
LEMMA IdleCyclesJog ==
    ASSUME NEW m, PowerInv(startup, recovery, power, m),
           JogInv(startup, recovery, power, m), m.command \notin Increment,
           NEW i \in Input, HeldByFault(m) \/ AwaitLink(m)
    PROVE  Jogs(m, i)
<1>1. /\ motion' = m /\ power' = Closed(power)
      /\ startup' = startup /\ recovery' = recovery
  BY DEF HeldByFault, AwaitLink
<1>2. JogInv(startup, recovery, Closed(power), m)
  BY ClosedJogs DEF PowerInv
<1> QED BY <1>1, <1>2 DEF Jogs, Kept, Turns, SameSign

(* engage_estop() stops every jog in the cycle of the press.                *)
LEMMA EngagedFacts ==
    ASSUME NEW m \in Motion
    PROVE  /\ EngagedMotion(m).command = JogStopImmediate
           /\ Inert(EngagedMotion(m))
<1> DEFINE t == To(m, "Idle")
           e == EngagedMotion(m)
<1>1. t \in Motion /\ t.phase = "Idle"
  BY ToType, PhaseFacts
<1>2. e = [t EXCEPT !.command = JogStopImmediate, !.active = None,
                    !.pending = None, !.collision = None,
                    !.bounceStarted = FALSE, !.limitReset = {},
                    !.interp = NewInterpreter]
  BY DEF EngagedMotion
<1> HIDE DEF t, e
<1>3. e.command = JogStopImmediate /\ Inert(e)
  BY <1>1, <1>2 DEF Motion, Inert
<1> QED BY <1>3 DEF e

(* A press in a cycle with a packet engages; without one it only closes.    *)
LEMMA HoldEstopJogs ==
    ASSUME NEW m, PowerInv(startup, recovery, power, m),
           JogInv(startup, recovery, power, m), m.command \notin Increment,
           NEW i \in Input, HoldEstop(m, i)
    PROVE  Jogs(m, i)
<1>1. power \in Power /\ m \in Motion /\ startup' = startup
  BY MotionInvFacts DEF PowerInv, HoldEstop
<1>2. CASE /\ recovery' = Engaged(i.packet) /\ power' = Dropped(power)
           /\ motion' = EngagedMotion(m)
  <2>1. /\ motion'.command = JogStopImmediate /\ Inert(motion')
    BY <1>1, <1>2, EngagedFacts
  <2>2. JogInv(startup', recovery', power', motion')
    BY <1>1, <1>2, <2>1, FaultedJogs, NotIncrements
  <2> QED BY <2>1, <2>2 DEF Jogs, Kept, Turns, Inert
<1>3. CASE /\ power' = Closed(power) /\ motion' = m /\ recovery' = recovery
  <2>1. JogInv(startup, recovery, Closed(power), m)
    BY <1>1, ClosedJogs
  <2>2. Closed(power).step = power.step
    BY <1>1 DEF Closed, Power
  <2> QED BY <1>1, <1>3, <2>1, <2>2 DEF Jogs, Kept, Turns, SameSign
<1> QED BY <1>2, <1>3 DEF HoldEstop

(* begin_linuxcnc_estop_reset(), from a motion that rests.                  *)
LEMMA ResetJogs ==
    ASSUME NEW p \in Power, NEW m \in Motion, m.fault = None,
           m.active = None, m.limitReset = {}, m.pending # None => m.mode,
           m.command \notin Increment, NEW i \in Input
    PROVE  LET n == ResetMotion(m, i)
           IN  /\ n.active = None
               /\ n.fault # None => n.command = JogStopImmediate
               /\ n.fault = None =>
                      /\ JogInv(FALSE, InactiveRecovery, ResetPower(p, i), n)
                      /\ n.command = m.command
<1> DEFINE k == SingleOf(i.raw)
           c == [m EXCEPT !.interp = NewInterpreter, !.collision = k]
           ph == IF c.collision # None THEN "BounceReleaseWait" ELSE "Idle"
           t == To(c, ph)
           n == ResetMotion(m, i)
           q == ResetPower(p, i)
<1>1. k \in Motors \cup {None}
  BY SingleType DEF Input
<1> HIDE DEF k
<1>2. /\ c \in Motion /\ c.fault = None /\ c.active = None
      /\ c.limitReset = {} /\ c.command = m.command /\ c.collision = k
      /\ c.pending = m.pending /\ c.mode = m.mode
  BY <1>1, InterpreterFacts DEF Motion
<1>3. n = IF i.raw # {} /\ c.collision = None
          THEN Fail(c, "LimitDuringRecovery")
          ELSE IF Stale(i) # {} THEN [t EXCEPT !.limitReset = Stale(i)] ELSE t
  BY DEF ResetMotion, k
<1> HIDE DEF c, n
<1>4. ph \in Phases
  BY PhaseFacts
<1>5. ph = IF k # None THEN "BounceReleaseWait" ELSE "Idle"
  BY <1>2
<1> HIDE DEF ph
<1>6. /\ t \in Motion /\ t.phase = ph /\ t.fault = None /\ t.active = None
      /\ t.limitReset = {} /\ t.command = m.command /\ t.collision = k
      /\ t.pending = m.pending /\ t.mode = m.mode
  BY <1>2, <1>4, ToType
<1> HIDE DEF t
<1>7. CASE n = Fail(c, "LimitDuringRecovery")
  <2>1. /\ n.fault # None /\ n.active = None /\ n.command = JogStopImmediate
    BY <1>2, <1>7, FailFields DEF Faults
  <2> QED BY <2>1 DEF n
<1>8. ~RecoveryActive(InactiveRecovery)
  BY DEF RecoveryActive, InactiveRecovery
<1>9. CASE Stale(i) # {} /\ n = [t EXCEPT !.limitReset = Stale(i)]
  <2>1. /\ n.phase = ph /\ n.fault = None /\ n.active = None
        /\ n.limitReset = Stale(i) /\ n.command = m.command
        /\ n.collision = k /\ n.pending = m.pending /\ n.mode = m.mode
    BY <1>6, <1>9 DEF Motion
  <2>2. q.step = "LimitResetAssert" /\ q.mask = Stale(i)
    <3> DEFINE o == [Closed(NoRequests(p)) EXCEPT !.restore = FALSE]
               a == AtStep(o, "LimitResetAssert")
    <3>1. o \in Power
      BY DEF Closed, NoRequests, Power
    <3>2. q = [a EXCEPT !.mask = Stale(i)]
      BY <1>9 DEF ResetPower
    <3> HIDE DEF o, q
    <3>3. a \in Power /\ a.step = "LimitResetAssert"
      BY <3>1, AtStepFacts, PowerStepFacts DEF LatchSteps
    <3> HIDE DEF a
    <3> QED BY <3>2, <3>3 DEF Power
  <2> HIDE DEF q
  <2>3. Shape(n)
    BY <1>5, <2>1, PhaseSets DEF Shape
  <2>4. JogInv(FALSE, InactiveRecovery, q, n)
    BY <1>8, <2>1, <2>2, <2>3 DEF JogInv
  <2> QED BY <2>1, <2>4 DEF n, q
<1>10. CASE Stale(i) = {} /\ n = t
  <2>1. q.step = "GateSettle"
    <3> DEFINE o == [Closed(NoRequests(p)) EXCEPT !.restore = FALSE]
               a == AtStep(o, "GateSettle")
    <3>1. o \in Power
      BY DEF Closed, NoRequests, Power
    <3>2. q = Opened(a)
      BY <1>10 DEF ResetPower
    <3> HIDE DEF o, q
    <3>3. a \in Power /\ a.step = "GateSettle"
      BY <3>1, AtStepFacts, PowerStepFacts DEF AskingSteps
    <3> HIDE DEF a
    <3> QED BY <3>2, <3>3 DEF Opened, Power
  <2> HIDE DEF q
  <2>2. Shape(n)
    BY <1>5, <1>6, <1>10, PhaseSets DEF Shape
  <2>3. JogInv(FALSE, InactiveRecovery, q, n)
    BY <1>6, <1>8, <1>10, <2>1, <2>2 DEF JogInv, Latched
  <2> QED BY <1>6, <1>10, <2>3 DEF n, q
<1> QED BY <1>3, <1>7, <1>9, <1>10

LEMMA BeginResetJogs ==
    ASSUME NEW p \in Power, NEW m \in Motion, m.fault = None,
           m.active = None, m.limitReset = {}, m.pending # None => m.mode,
           m.command \notin Increment, NEW i \in Input,
           BeginLinuxcncEstopReset(p, m, i)
    PROVE  /\ JogInv(startup', recovery', power', motion')
           /\ motion'.active = None
           /\ motion'.command \in {m.command, JogStopImmediate}
<1> DEFINE n == ResetMotion(m, i)
           q == ResetPower(p, i)
<1>1. /\ n.active = None
      /\ n.fault # None => n.command = JogStopImmediate
      /\ n.fault = None =>
             JogInv(FALSE, InactiveRecovery, q, n) /\ n.command = m.command
  BY ResetJogs
<1>2. MotionInv(n) /\ q \in Power
  BY ResetMotionSafe, SafeMotion, ResetPowerFacts
<1>3. startup' = FALSE /\ Settle(InactiveRecovery, q, n)
  BY DEF BeginLinuxcncEstopReset
<1> HIDE DEF n, q
<1>4. JogInv(FALSE, recovery', power', motion') /\ motion' = n
  BY <1>1, <1>2, <1>3, SettleJogs
<1> QED BY <1>1, <1>3, <1>4

LEMMA AcceptAxisResetJogs ==
    ASSUME NEW m, PowerInv(startup, recovery, power, m),
           JogInv(startup, recovery, power, m), m.command \notin Increment,
           NEW i \in Input, AcceptAxisReset(m, i)
    PROVE  Jogs(m, i)
<1> DEFINE n == ResetMotion(m, i)
           q == ResetPower(power, i)
<1>1. /\ power \in Power /\ m \in Motion /\ m.fault = None
      /\ RecoveryActive(recovery)
  BY MotionInvFacts DEF PowerInv, AcceptAxisReset, Operable, AxisReset
<1>2. /\ m.active = None /\ m.limitReset = {} /\ m.phase = "Idle"
      /\ m.pending # None => m.mode
  BY <1>1 DEF JogInv, Shape
<1>3. m.collision = None
  BY <1>2, PhaseSets DEF JogInv, Shape
<1>4. CASE n.fault # None
  <2>1. BeginLinuxcncEstopReset(power, m, i)
    BY <1>4 DEF AcceptAxisReset
  <2>2. JogInv(startup', recovery', power', motion') /\ motion'.active = None
    BY <1>1, <1>2, <2>1, BeginResetJogs
  <2> QED BY <1>2, <1>3, <2>2 DEF Jogs, Kept, Turns
<1>5. CASE n.fault = None
  <2>1. /\ startup' = FALSE
        /\ AdvanceRecovery(InactiveRecovery, q, n, i)
    BY <1>5 DEF AcceptAxisReset
  <2>2. PowerInv(FALSE, InactiveRecovery, q, n)
    BY <1>1, <1>5, ResetKeeps
  <2>3. JogInv(FALSE, InactiveRecovery, q, n) /\ n.command = m.command
    BY <1>1, <1>2, <1>5, ResetJogs
  <2> HIDE DEF n, q
  <2>4. Rests(FALSE, n)
    BY <1>5, <2>1, <2>2, <2>3, AdvanceRecoveryJogs
  <2> QED BY <1>2, <1>3, <2>1, <2>4 DEF Rests, Jogs, Kept, Turns
<1> QED BY <1>4, <1>5

LEMMA PowerStepJogs ==
    ASSUME NEW m, PowerInv(startup, recovery, power, m),
           JogInv(startup, recovery, power, m), m.command \notin Increment,
           NEW i \in Input, PowerStep(m, i)
    PROVE  Jogs(m, i)
<1>1. /\ power \in Power /\ m \in Motion /\ m.fault = None /\ MotionInv(m)
      /\ power.step # "None" /\ m.active = None
  BY MotionInvFacts DEF PowerInv, JogInv, PowerStep, Operable
<1>2. CASE /\ power.step = "AwaitUiReset"
           /\ BeginLinuxcncEstopReset(power, m, i)
  <2>1. /\ m.limitReset = {} /\ m.phase = "Idle"
        /\ m.pending # None => m.mode
    BY <1>2 DEF JogInv, Shape
  <2>2. m.collision = None
    BY <2>1, PhaseSets DEF JogInv, Shape
  <2>3. JogInv(startup', recovery', power', motion') /\ motion'.active = None
    BY <1>1, <1>2, <2>1, BeginResetJogs
  <2> QED BY <1>1, <2>2, <2>3 DEF Jogs, Kept, Turns
<1>3. CASE Settle(recovery, Closed(power), m) /\ UNCHANGED startup
  <2>1. JogInv(startup, recovery, Closed(power), m)
    BY <1>1, ClosedJogs
  <2>2. Closed(power) \in Power
    BY <1>1 DEF Closed, Power
  <2>3. JogInv(startup, recovery', power', motion') /\ motion' = m
    BY <1>1, <1>3, <2>1, <2>2, SettleJogs
  <2> QED BY <1>1, <1>3, <2>3 DEF Jogs, Kept, Turns
<1>4. CASE AdvanceRecovery(recovery, power, m, i) /\ UNCHANGED startup
  <2>1. Rests(startup, m)
    BY <1>1, <1>4, AdvanceRecoveryJogs
  <2> QED BY <1>1, <1>4, <2>1, RestsKept
<1> QED BY <1>2, <1>3, <1>4 DEF PowerStep

LEMMA FollowGestureJogs ==
    ASSUME NEW m, PowerInv(startup, recovery, power, m),
           JogInv(startup, recovery, power, m), m.command \notin Increment,
           NEW i \in Input, FollowGesture(m, i)
    PROVE  Jogs(m, i)
<1>1. /\ power \in Power /\ m.fault = None /\ MotionInv(m)
      /\ power.step = "None" /\ RecoveryActive(recovery)
      /\ startup' = startup
  BY DEF PowerInv, FollowGesture, Operable
<1>2. /\ m.phase = "Idle" /\ m.active = None /\ m.limitReset = {}
      /\ Shape(m)
  BY <1>1 DEF JogInv
<1>3. ASSUME NEW g, NEW q \in Power, q.step \in {"None", "GateSettle"},
             Settle(g, q, m)
      PROVE  Jogs(m, i)
  <2>1. JogInv(startup, g, q, m)
    BY <1>2, <1>3 DEF JogInv, Latched
  <2>2. JogInv(startup, recovery', power', motion') /\ motion' = m
    BY <1>1, <1>3, <2>1, SettleJogs
  <2> QED BY <1>1, <1>2, <2>2 DEF Jogs, Kept, Turns
<1>4. Closed(power) \in Power /\ Closed(power).step = "None"
  BY <1>1 DEF Closed, Power
<1>5. UnlockedPower(power) \in Power /\ UnlockedPower(power).step = "GateSettle"
  <2> DEFINE o == NoRequests(power)
             a == AtStep(o, "GateSettle")
  <2>1. o \in Power
    BY <1>1, NoRequestsFacts
  <2>2. UnlockedPower(power) = [Opened(a) EXCEPT !.restore = TRUE]
    BY DEF UnlockedPower
  <2> HIDE DEF o
  <2>3. a \in Power /\ a.step = "GateSettle"
    BY <2>1, AtStepFacts, PowerStepFacts DEF AskingSteps
  <2> HIDE DEF a
  <2> QED BY <2>2, <2>3 DEF Opened, Power
<1> QED BY <1>3, <1>4, <1>5 DEF FollowGesture

LEMMA LinkFaultJogs ==
    ASSUME NEW m, PowerInv(startup, recovery, power, m),
           JogInv(startup, recovery, power, m), m.command \notin Increment,
           NEW i \in Input, LinkFault(m, i)
    PROVE  Jogs(m, i)
<1>1. power \in Power /\ m \in Motion /\ m.fault = None /\ startup' = startup
  BY MotionInvFacts DEF PowerInv, LinkFault, Running, Operable
<1>2. Rests(startup, m)
  BY <1>1, SettleFaultJogs DEF LinkFault, Faults, Rests
<1>3. motion'.command = JogStopImmediate
  BY <1>1, SettleFaultJogs DEF LinkFault, Faults
<1> QED BY <1>1, <1>2, <1>3, RestsKept

(* check_startup_limits(): from rest, so that there is nothing to keep.     *)
LEMMA StartupMotionJogs ==
    ASSUME NEW m \in Motion, m.fault = None, Shape(m), Latched(m),
           m.command \notin Increment,
           startup => m.phase = "Idle" /\ m.active = None /\ m.limitReset = {},
           NEW i \in Input
    PROVE  LET n == StartupMotion(m, i)
           IN  /\ Shape(n) /\ Latched(n) /\ n.active = m.active
               /\ n.command \notin Increment
               /\ n.fault # None => n.command = JogStopImmediate
               /\ m.collision = None \/ n.collision = m.collision
               /\ n.phase = "BounceResetValidate" => n = m
<1> DEFINE c == [m EXCEPT !.active = None, !.pending = None,
                          !.bounceStarted = FALSE, !.collision = SingleOf(i.raw)]
           n == StartupMotion(m, i)
<1>1. ~startup => n = m
  BY DEF StartupMotion
<1>2. CASE startup
  <2>1. m.collision = None /\ m.active = None /\ m.limitReset = {}
    BY <1>2, PhaseSets DEF Shape
  <2>2. ASSUME NEW code \in Faults, n = Fail(m, code)
        PROVE  /\ Shape(n) /\ Latched(n) /\ n.active = m.active
               /\ n.command = JogStopImmediate
               /\ n.phase = "Idle"
    <3>1. Follows(m, n, i) /\ n.active = None
      BY <2>2, FailFields, FailFollows
    <3> QED BY <2>1, <2>2, <3>1, FailFields DEF Follows, Fine
  <2>3. CASE n = To(m, "StartupReadyGateSettle")
    <3>1. "StartupReadyGateSettle" \in Phases
      BY StartupPhaseFacts, PhaseFacts
    <3> HIDE DEF n
    <3>2. /\ n.phase = "StartupReadyGateSettle" /\ n.active = None
          /\ n.collision = None /\ n.limitReset = {} /\ n.fault = None
          /\ n.pending = m.pending /\ n.mode = m.mode /\ n.command = m.command
      BY <2>1, <2>3, <3>1, ToType
    <3>3. Shape(n) /\ Latched(n)
      BY <3>2, PhaseSets DEF Shape, Latched
    <3> QED BY <2>1, <3>2, <3>3 DEF n
  <2>4. CASE IsSingle(i.raw) /\ n = To(c, "StartupGateSettle")
    <3>1. "StartupGateSettle" \in Phases
      BY StartupPhaseFacts, PhaseFacts
    <3>2. SingleOf(i.raw) \in Motors
      BY <2>4 DEF SingleOf, IsSingle, Input
    <3>3. SingleOf(i.raw) # None
      BY <3>2, SampleAssumption
    <3>4. /\ c \in Motion /\ c.active = None /\ c.collision = SingleOf(i.raw)
          /\ c.limitReset = {} /\ c.fault = None /\ c.pending = None
          /\ c.command = m.command
      BY <2>1, <3>2 DEF Motion
    <3> HIDE DEF n, c
    <3>5. /\ n.phase = "StartupGateSettle" /\ n.active = None
          /\ n.collision # None /\ n.limitReset = {} /\ n.fault = None
          /\ n.pending = None /\ n.command = m.command
      BY <2>4, <3>1, <3>3, <3>4, ToType
    <3>6. Shape(n) /\ Latched(n)
      BY <3>5, PhaseSets DEF Shape, Latched
    <3> QED BY <2>1, <3>5, <3>6 DEF n
  <2>5. \/ n = m
        \/ n = To(m, "StartupReadyGateSettle")
        \/ n = Fail(m, "StartupLimitMismatch")
        \/ n = Fail(m, "StartupLimitDuringHoming")
        \/ IsSingle(i.raw) /\ n = To(c, "StartupGateSettle")
    BY DEF StartupMotion
  <2>6. /\ "StartupLimitMismatch" \in Faults
        /\ "StartupLimitDuringHoming" \in Faults
    BY DEF Faults
  <2> HIDE DEF n
  <2>7. CASE n = m
    BY <2>7 DEF n
  <2>8. CASE \/ n = Fail(m, "StartupLimitMismatch")
             \/ n = Fail(m, "StartupLimitDuringHoming")
    <3>1. /\ Shape(n) /\ Latched(n) /\ n.active = m.active
          /\ n.command = JogStopImmediate /\ n.phase = "Idle"
      BY <2>2, <2>6, <2>8
    <3> QED BY <2>1, <3>1, NotIncrements DEF n
  <2> QED BY <2>3, <2>4, <2>5, <2>7, <2>8
<1> QED BY <1>1, <1>2

(* A cycle of the startup or of the jog branch, by what it settles on.      *)
LEMMA OperateSettles ==
    ASSUME NEW q \in Power, q.step = "None", power.step = "None",
           ~RecoveryActive(recovery), startup' = FALSE, NEW n, MotionInv(n),
           Shape(n), Latched(n), n.fault # None => n.command = JogStopImmediate,
           n.fault = None => q.gate, Settle(recovery, q, n),
           NEW m, NEW i, Turns(m, n, i),
           \/ m.collision = None \/ n.collision = m.collision
           \/ n.fault # None \/ Releases(m, i)
    PROVE  Jogs(m, i)
<1>1. n.fault = None => JogInv(FALSE, recovery, q, n)
  BY DEF JogInv
<1>2. JogInv(FALSE, recovery', power', motion') /\ motion' = n
  BY <1>1, SettleJogs
<1>3. recovery' = recovery /\ power'.step = "None"
  BY DroppedPower DEF Settle
<1> QED BY <1>2, <1>3 DEF Jogs, Kept, Interrupts

(* A startup that waits, asks or gives up starts no jog.                    *)
LEMMA StartupToJogs ==
    ASSUME NEW s, Starting(s), Shape(s), Latched(s), s.command \notin Increment,
           NEW n,
           \/ n = s
           \/ \E code \in Faults : n = Fail(s, code)
           \/ \E ph \in StartupPhases :
                 /\ n = To(s, ph)
                 /\ ph \in BouncePhases <=> s.phase \in BouncePhases
    PROVE  /\ MotionInv(n) /\ Shape(n) /\ Latched(n) /\ n.active = None
           /\ n.fault # None => n.command = JogStopImmediate
           /\ n.collision = s.collision \/ n.fault # None
<1>1. s \in Motion /\ s.fault = None /\ s.active = None
  BY DEF Starting
<1>2. CASE n = s
  BY <1>1, <1>2 DEF MotionInv
<1>3. ASSUME NEW code \in Faults, n = Fail(s, code)
      PROVE  /\ MotionInv(n) /\ Shape(n) /\ Latched(n) /\ n.active = None
             /\ n.fault # None /\ n.command = JogStopImmediate
  <2>1. Follows(s, n, code) /\ MotionInv(n)
    BY <1>1, <1>3, FailFollows, FailSafe, SafeMotion
  <2> QED BY <1>1, <1>3, <2>1, FailFields DEF Follows, Fine
<1>4. ASSUME NEW ph \in StartupPhases, n = To(s, ph),
             ph \in BouncePhases <=> s.phase \in BouncePhases
      PROVE  /\ MotionInv(n) /\ Shape(n) /\ Latched(n) /\ n.active = None
             /\ n.fault = None /\ n.collision = s.collision
  <2>1. ph \in Phases /\ s.phase \in StartupPhases
    BY PhaseFacts DEF Starting
  <2>2. /\ n.phase = ph /\ n.active = None /\ n.fault = None
        /\ n.collision = s.collision /\ n.limitReset = s.limitReset
        /\ n.pending = s.pending /\ n.mode = s.mode /\ n.command = s.command
        /\ n.homingWas = s.homingWas
    BY <1>1, <1>4, <2>1, ToType
  <2>3. ph \notin MovingPhases /\ s.phase # "BounceResetAssert"
    BY <2>1, PhaseSets, StartupPhaseFacts
  <2>4. Shape(n) /\ Latched(n)
    BY <1>4, <2>2, <2>3 DEF Shape, Latched
  <2> QED BY <1>4, <2>2, <2>4, StartingTo
<1> QED BY <1>2, <1>3, <1>4

LEMMA AdvanceStartupPowerJogs ==
    ASSUME NEW s, Starting(s), Shape(s), Latched(s), s.command \notin Increment,
           s.phase \in StartupPowerPhases, power.step = "None",
           ~RecoveryActive(recovery), startup' = FALSE,
           NEW p \in Power, p.step = "None", p.gate,
           NEW i \in Input, AdvanceStartupPower(p, s, i)
    PROVE  Jogs(s, i)
<1>1. s.active = None /\ s.fault = None /\ s \in Motion
  BY DEF Starting
<1>2. s.phase \notin BouncePhases /\ s.collision = None
  BY PhaseSets DEF Shape, StartupPowerPhases
<1>3. ASSUME NEW q \in Power, q.step = "None", q.gate, NEW n,
             SettleStartup(q, n), MotionInv(n), Shape(n), Latched(n),
             n.fault # None => n.command = JogStopImmediate
      PROVE  Jogs(s, i)
  <2>1. Turns(s, n, i)
    BY <1>1 DEF Turns
  <2> QED BY <1>2, <1>3, <2>1, OperateSettles DEF SettleStartup
<1>4. ASSUME NEW code \in Faults, SettleStartup(p, Fail(s, code))
      PROVE  Jogs(s, i)
  BY <1>3, <1>4, StartupToJogs
<1>5. CASE SettleStartup(p, s)
  BY <1>3, <1>5, StartupToJogs
<1>6. CASE AskReset(p, s, "StartupReadyWaitReset")
  <2> DEFINE q == [p EXCEPT !.estopReset = TRUE]
             n == To(s, "StartupReadyWaitReset")
  <2>1. q \in Power /\ q.step = "None" /\ q.gate
    BY DEF Power
  <2>2. SettleStartup(q, n)
    BY <1>6 DEF AskReset
  <2>3. /\ "StartupReadyWaitReset" \in StartupPhases
        /\ "StartupReadyWaitReset" \notin BouncePhases
    BY PhaseSets, StartupPhaseFacts
  <2>4. MotionInv(n) /\ Shape(n) /\ Latched(n) /\
        (n.fault # None => n.command = JogStopImmediate)
    BY <1>2, <2>3, StartupToJogs
  <2> HIDE DEF q, n
  <2> QED BY <1>3, <2>1, <2>2, <2>4
<1>7. CASE AskMachineOn(p, s, "StartupReadyWaitOn")
  <2> DEFINE q == [p EXCEPT !.estopReset = FALSE, !.machineOn = TRUE]
             n == To(s, "StartupReadyWaitOn")
  <2>1. q \in Power /\ q.step = "None" /\ q.gate
    BY DEF Power
  <2>2. SettleStartup(q, n)
    BY <1>7 DEF AskMachineOn
  <2>3. /\ "StartupReadyWaitOn" \in StartupPhases
        /\ "StartupReadyWaitOn" \notin BouncePhases
    BY PhaseSets, StartupPhaseFacts
  <2>4. MotionInv(n) /\ Shape(n) /\ Latched(n) /\
        (n.fault # None => n.command = JogStopImmediate)
    BY <1>2, <2>3, StartupToJogs
  <2> HIDE DEF q, n
  <2> QED BY <1>3, <2>1, <2>2, <2>4
<1>8. CASE FinishStartupPower(p, s)
  <2> DEFINE q == NoRequests(p)
             t == To(s, "Idle")
             n == [t EXCEPT !.interp = NewInterpreter]
  <2>1. q \in Power /\ q.step = "None" /\ q.gate
    BY NoRequestsFacts
  <2>2. SettleStartup(q, n)
    BY <1>8 DEF FinishStartupPower
  <2>3. "Idle" \in Phases
    BY PhaseFacts
  <2>4. /\ t \in Motion /\ t.phase = "Idle" /\ t.active = None
        /\ t.fault = None /\ t.collision = None /\ t.pending = s.pending
        /\ t.mode = s.mode /\ t.limitReset = s.limitReset
        /\ t.homingWas = s.homingWas /\ t.command = s.command
    BY <1>1, <1>2, <2>3, ToType
  <2> HIDE DEF q, t
  <2>5. /\ n \in Motion /\ n.phase = "Idle" /\ n.active = None
        /\ n.fault = None /\ n.collision = None /\ n.pending = s.pending
        /\ n.mode = s.mode /\ n.limitReset = s.limitReset
        /\ n.homingWas = s.homingWas /\ n.command = s.command
    BY <2>4, InterpreterFacts DEF Motion
  <2> HIDE DEF n
  <2>6. s.phase # "BounceResetAssert"
    BY DEF StartupPowerPhases
  <2>7. Shape(n) /\ Latched(n) /\ MotionInv(n)
    BY <2>5, <2>6, PhaseSets, PhaseFacts
       DEF Shape, Latched, MotionInv, Live
  <2> QED BY <1>3, <2>1, <2>2, <2>5, <2>7
<1>9. /\ "LimitDuringStartupReset" \in Faults
      /\ "HomingDuringStartupReset" \in Faults
  BY DEF Faults
<1> QED
  BY <1>4, <1>5, <1>6, <1>7, <1>8, <1>9 DEF AdvanceStartupPower

LEMMA AdvanceStartupBounceJogs ==
    ASSUME NEW s, Starting(s), Shape(s), Latched(s), s.command \notin Increment,
           s.phase \in StartupBouncePhases, power.step = "None",
           ~RecoveryActive(recovery), startup' = FALSE,
           NEW p \in Power, p.step = "None", p.gate,
           NEW i \in Input, AdvanceStartupBounce(p, s, i)
    PROVE  Jogs(s, i)
<1>1. s.active = None /\ s.fault = None /\ s \in Motion
  BY DEF Starting
<1>2. s.phase \in BouncePhases /\ s.phase # "BounceResetAssert"
  BY PhaseSets DEF StartupBouncePhases
<1>3. ASSUME NEW q \in Power, q.step = "None", q.gate, NEW n,
             SettleStartup(q, n), MotionInv(n), Shape(n), Latched(n),
             n.fault # None => n.command = JogStopImmediate,
             n.collision = s.collision \/ n.fault # None
      PROVE  Jogs(s, i)
  <2>1. Turns(s, n, i)
    BY <1>1 DEF Turns
  <2> QED BY <1>3, <2>1, OperateSettles DEF SettleStartup
<1>4. CASE SettleStartup(p, Fail(s, "BounceLostLimitAttribution"))
  BY <1>3, <1>4, StartupToJogs DEF Faults
<1>5. ASSUME NEW q \in Power, q.step = "None", q.gate, SettleStartup(q, s)
      PROVE  Jogs(s, i)
  BY <1>3, <1>5, StartupToJogs
<1>6. ASSUME NEW q \in Power, q.step = "None", q.gate,
             NEW ph \in {"StartupWaitReset", "StartupWaitOn"},
             SettleStartup(q, To(s, ph))
      PROVE  Jogs(s, i)
  <2>1. ph \in StartupPhases /\ ph \in BouncePhases
    BY PhaseSets, StartupPhaseFacts
  <2> DEFINE n == To(s, ph)
  <2>2. /\ MotionInv(n) /\ Shape(n) /\ Latched(n)
        /\ n.fault # None => n.command = JogStopImmediate
        /\ n.collision = s.collision \/ n.fault # None
    BY <1>2, <2>1, StartupToJogs
  <2>3. SettleStartup(q, n)
    BY <1>6
  <2> HIDE DEF n
  <2> QED BY <1>3, <1>6, <2>2, <2>3
<1>7. CASE AskReset(p, s, "StartupWaitReset")
  <2>1. /\ [p EXCEPT !.estopReset = TRUE] \in Power
        /\ [p EXCEPT !.estopReset = TRUE].step = "None"
        /\ [p EXCEPT !.estopReset = TRUE].gate
    BY DEF Power
  <2> QED BY <1>6, <1>7, <2>1 DEF AskReset
<1>8. CASE AskMachineOn(p, s, "StartupWaitOn")
  <2> DEFINE q == [p EXCEPT !.estopReset = FALSE, !.machineOn = TRUE]
  <2>1. q \in Power /\ q.step = "None" /\ q.gate
    BY DEF Power
  <2>2. SettleStartup(q, To(s, "StartupWaitOn"))
    BY <1>8 DEF AskMachineOn
  <2> HIDE DEF q
  <2> QED BY <1>6, <2>1, <2>2
<1>9. CASE SettleStartup(
               [p EXCEPT
                  !.estopReset = p.estopReset /\ s.phase # "StartupWaitReset",
                  !.machineOn = p.machineOn /\ s.phase # "StartupWaitOn"], s)
  <2> DEFINE x == p.estopReset /\ s.phase # "StartupWaitReset"
             y == p.machineOn /\ s.phase # "StartupWaitOn"
             q == [p EXCEPT !.estopReset = x, !.machineOn = y]
  <2>1. x \in BOOLEAN /\ y \in BOOLEAN
    OBVIOUS
  <2>2. SettleStartup(q, s)
    BY <1>9
  <2> HIDE DEF x, y
  <2>3. q \in Power /\ q.step = "None" /\ q.gate
    BY <2>1 DEF Power
  <2> HIDE DEF q
  <2> QED BY <1>5, <2>2, <2>3
<1>10. CASE /\ i.path # None
            /\ SettleStartup(NoRequests(p), StartBounceMove(s, i.path, i))
  <2> DEFINE n == StartBounceMove(s, i.path, i)
             q == NoRequests(p)
  <2>1. q \in Power /\ q.step = "None" /\ q.gate
    BY NoRequestsFacts
  <2>2. i.path \in Paths
    BY <1>10 DEF Input
  <2>3. n = s \/ Follows(s, n, i)
    BY <1>1, <1>2, <2>2, StartBounceMoveFollows
  <2>4. SettleStartup(q, n)
    BY <1>10
  <2> HIDE DEF q, n
  <2>5. CASE n = s
    BY <1>5, <2>1, <2>4, <2>5
  <2>6. CASE Follows(s, n, i)
    <3>1. Fine(n) /\ Holds(s, n) /\ MotionInv(n)
      BY <2>6, SafeMotion DEF Follows, Fine
    <3>2. s.collision # None
      BY <1>2 DEF Shape
    <3>3. n.collision = s.collision \/ n.fault # None
      BY <3>1, <3>2 DEF Holds
    <3> QED BY <1>3, <2>1, <2>4, <3>1, <3>3 DEF Fine
  <2> QED BY <2>3, <2>5, <2>6
<1> QED
  BY <1>4, <1>5, <1>7, <1>8, <1>9, <1>10 DEF AdvanceStartupBounce

LEMMA OperateJogs ==
    ASSUME NEW m, PowerInv(startup, recovery, power, m),
           JogInv(startup, recovery, power, m), m.command \notin Increment,
           NEW i \in Input, Operate(m, i)
    PROVE  Jogs(m, i)
<1> DEFINE s == StartupMotion(m, i)
           p == Opened(StartupPower)
<1>1. /\ power \in Power /\ MotionInv(m) /\ m \in Motion /\ m.fault = None
      /\ power.step = "None" /\ ~RecoveryActive(recovery)
      /\ startup' = FALSE /\ Shape(m) /\ Latched(m)
  BY MotionInvFacts DEF PowerInv, JogInv, Operate, Running, Operable
<1>2. startup => m.phase = "Idle" /\ m.active = None /\ m.limitReset = {}
  BY DEF JogInv
<1>3. MotionInv(s)
  <2>1. startup => m.active = None /\ m.phase \notin StartupPhases
    BY DEF PowerInv
  <2> QED BY <1>1, <2>1, StartupMotionFacts
<1>4. /\ Shape(s) /\ Latched(s) /\ s.active = m.active
      /\ s.command \notin Increment
      /\ s.fault # None => s.command = JogStopImmediate
      /\ m.collision = None \/ s.collision = m.collision
      /\ s.phase = "BounceResetValidate" => s = m
  BY <1>1, <1>2, StartupMotionJogs
<1>5. p \in Power /\ p.step = "None" /\ p.gate
  <2> DEFINE o == StartupPower
  <2>1. o \in Power /\ o.step = "None"
    BY <1>1, NoRequestsFacts DEF StartupPower
  <2> HIDE DEF o
  <2>2. p = Opened(o)
    BY DEF o
  <2> QED BY <2>1, <2>2 DEF Opened, Power
<1> HIDE DEF p
(* What the startup decision leaves, the jog branch started from.           *)
<1>6. Jogs(s, i) => Jogs(m, i)
  <2> HIDE DEF s
  <2>1. Turns(s, motion', i) => Turns(m, motion', i)
    BY <1>4 DEF Turns
  <2>2. Releases(s, i) => Releases(m, i)
    BY <1>4 DEF Releases
  <2> QED BY <1>4, <2>1, <2>2 DEF Jogs, Kept
<1>7. CASE s.fault # None /\ Settle(recovery, power, s)
  <2>1. Turns(s, s, i)
    BY DEF Turns, SameSign
  <2> QED BY <1>1, <1>3, <1>4, <1>6, <1>7, <2>1, OperateSettles
<1>8. CASE /\ s.fault = None /\ s.phase \in StartupPowerPhases
           /\ AdvanceStartupPower(p, s, i)
  <2>1. Starting(s)
    BY <1>3, <1>8, MotionInvFacts DEF StartupPhases
  <2> QED BY <1>1, <1>4, <1>5, <1>6, <1>8, <2>1, AdvanceStartupPowerJogs
<1>9. CASE /\ s.fault = None /\ s.phase \in StartupBouncePhases
           /\ IF CheckLimits(s, i).fault # None
              THEN Settle(recovery, p, CheckLimits(s, i))
              ELSE AdvanceStartupBounce(p, CheckLimits(s, i), i)
  <2> DEFINE c == CheckLimits(s, i)
             f == Fail(s, "BounceLostLimitAttribution")
  <2>1. Starting(s)
    BY <1>3, <1>9, MotionInvFacts DEF StartupPhases
  <2>2. s \in Motion /\ s.active = None
    BY <2>1 DEF Starting
  <2>3. c \in {s, f}
    BY <1>9 DEF CheckLimits, BouncePhases
  <2>4. /\ f.fault # None /\ MotionInv(f) /\ Shape(f) /\ Latched(f)
        /\ f.command = JogStopImmediate
    BY <1>4, <1>9, <2>1, <2>2, FailFields, StartupToJogs DEF Faults
  <2>5. /\ IF c.fault # None THEN Settle(recovery, p, c)
           ELSE AdvanceStartupBounce(p, c, i)
    BY <1>9
  <2> HIDE DEF c, f, s
  <2>6. CASE c = s
    BY <1>1, <1>4, <1>5, <1>6, <1>9, <2>1, <2>5, <2>6,
       AdvanceStartupBounceJogs
  <2>7. CASE c = f
    <3>1. Turns(s, f, i)
      BY <2>2 DEF Turns
    <3>2. Settle(recovery, p, f)
      BY <2>4, <2>5, <2>7
    <3> QED BY <1>1, <1>5, <1>6, <2>4, <3>1, <3>2, OperateSettles
  <2> QED BY <2>3, <2>6, <2>7
<1>10. CASE /\ s.fault = None /\ s.phase \notin StartupPhases
            /\ Settle(recovery, p, RunMotion(s, i))
  <2> DEFINE n == RunMotion(s, i)
  <2>1. Good(s)
    BY <1>3, <1>4, <1>10, MotionInvFacts DEF Good
  <2>2. Fine(n) /\ Turns(s, n, i) /\ (Holds(s, n) \/ Releases(s, i))
    BY <1>4, <2>1, RunMotionAdvances
  <2>3. Settle(recovery, p, n)
    BY <1>10
  <2> HIDE DEF n, s
  <2>4. MotionInv(n)
    BY <2>2, SafeMotion DEF Fine
  <2> QED BY <1>1, <1>5, <1>6, <2>2, <2>3, <2>4, OperateSettles
             DEF Fine, Holds
<1> QED
  BY <1>7, <1>8, <1>9, <1>10 DEF Operate, StartupPhases, p

-----------------------------------------------------------------------------
(* The actions                                                              *)

MotionIInv == IInv /\ JogInv(startup, recovery, power, motion)

LEMMA UpdateJogs ==
    ASSUME MotionIInv, NEW i \in Input, Update(i)
    PROVE  Jogs(motion, i)
<1> DEFINE m == BeginCycle(motion, i)
<1>1. PowerInv(startup, recovery, power, motion)
  BY DEF MotionIInv, IInv
<1>2. PowerInv(startup, recovery, power, m)
  BY <1>1, BeginCycleKeeps
<1>3. /\ JogInv(startup, recovery, power, m) /\ m.command \notin Increment
      /\ m.active = motion.active /\ m.collision = motion.collision
      /\ m.phase = "BounceResetValidate" =>
             motion.phase = "BounceResetValidate"
  BY <1>1, BeginCycleJogs DEF MotionIInv
<1>4. \/ HeldByFault(m) \/ AwaitLink(m) \/ HoldEstop(m, i)
      \/ AcceptAxisReset(m, i) \/ PowerStep(m, i) \/ FollowGesture(m, i)
      \/ LinkFault(m, i) \/ Operate(m, i)
  BY DEF Update
<1> HIDE DEF m
<1>5. Jogs(m, i)
  BY <1>2, <1>3, <1>4, IdleCyclesJog, HoldEstopJogs, AcceptAxisResetJogs,
     PowerStepJogs, FollowGestureJogs, LinkFaultJogs, OperateJogs
<1>6. Turns(m, motion', i) => Turns(motion, motion', i)
  BY <1>3 DEF Turns
<1> QED BY <1>3, <1>5, <1>6 DEF Jogs, Kept, Releases

(* clear_latched_fault(), alone or with the reset that follows it.          *)
LEMMA ClearedJogs ==
    ASSUME IInv
    PROVE  /\ ClearedMotion.command = JogStopImmediate
           /\ Inert(ClearedMotion)
<1> DEFINE t == To(motion, "Idle")
<1>1. motion \in Motion
  BY MotionInvFacts DEF IInv, PowerInv
<1>2. t \in Motion /\ t.phase = "Idle"
  BY <1>1, ToType, PhaseFacts
<1>3. ClearedMotion =
          [t EXCEPT !.active = None, !.pending = None, !.collision = None,
                    !.bounceStarted = FALSE, !.limitReset = {},
                    !.homingWas = FALSE, !.homingElapsed = 0,
                    !.interp = NewInterpreter, !.fault = None,
                    !.command = JogStopImmediate]
  BY DEF ClearedMotion
<1> HIDE DEF t
<1> QED BY <1>2, <1>3 DEF Motion, Inert

(* The operations besides update(), and what each does to a jog.            *)
Called(m) ==
    /\ JogInv(startup', recovery', power', motion')
    /\ \/ motion'.command = JogStopImmediate
       \/ /\ motion'.collision = m.collision /\ motion'.fault = m.fault
          /\ recovery' = recovery /\ power' = power

LEMMA ClearLatchedFaultJogs ==
    ASSUME MotionIInv, ClearLatchedFault
    PROVE  Called(motion) /\ motion'.command = JogStopImmediate
<1>1. /\ ClearedMotion.command = JogStopImmediate /\ Inert(ClearedMotion)
      /\ ClearedPower.step = "AwaitUiReset"
  BY ClearedJogs, ClearedFacts DEF MotionIInv
<1>2. /\ motion' = ClearedMotion /\ power' = ClearedPower
      /\ startup' = FALSE /\ recovery' = InactiveRecovery
  BY DEF ClearLatchedFault
<1>3. JogInv(startup', recovery', power', motion')
  BY <1>1, <1>2, PhaseSets, NotIncrements
     DEF JogInv, Latched, Shape, Inert
<1> QED BY <1>1, <1>2, <1>3 DEF Called, Inert

LEMMA ClearAndResetJogs ==
    ASSUME MotionIInv, NEW i \in Input, ClearAndReset(i)
    PROVE  Called(motion) /\ motion'.command = JogStopImmediate
<1>1. /\ ClearedMotion.command = JogStopImmediate /\ Inert(ClearedMotion)
      /\ ClearedPower \in Power /\ Live(ClearedMotion)
  BY ClearedJogs, ClearedFacts DEF MotionIInv
<1>2. BeginLinuxcncEstopReset(ClearedPower, ClearedMotion, i)
  BY DEF ClearAndReset
<1>3. /\ JogInv(startup', recovery', power', motion')
      /\ motion'.active = None /\ motion'.command = JogStopImmediate
  <2>1. /\ ClearedMotion \in Motion /\ ClearedMotion.fault = None
        /\ ClearedMotion.active = None /\ ClearedMotion.limitReset = {}
        /\ ClearedMotion.pending = None
        /\ ClearedMotion.command \notin Increment
    BY <1>1, NotIncrements DEF Live, Inert
  <2> QED BY <1>1, <1>2, <2>1, BeginResetJogs
<1> QED BY <1>3 DEF Called

LEMMA RuntimeFaultJogs ==
    ASSUME MotionIInv, NEW code \in RuntimeFaults, RuntimeFault(code)
    PROVE  Called(motion) /\ motion'.command = JogStopImmediate
<1>1. /\ code \in Faults /\ motion.fault = None /\ startup' = startup
      /\ SettleFault(recovery, power, motion, code)
  BY DEF RuntimeFaults, Faults, RuntimeFault
<1>2. power \in Power /\ motion \in Motion
  BY MotionInvFacts DEF MotionIInv, IInv, PowerInv
<1>3. /\ JogInv(startup', recovery', power', motion')
      /\ motion'.command = JogStopImmediate /\ motion'.active = None
  BY <1>1, <1>2, SettleFaultJogs
<1> QED BY <1>3 DEF Called

LEMMA RetireJogs ==
    ASSUME MotionIInv, ObserveManualProbeStop
    PROVE  Called(motion)
<1> DEFINE n == RetireProbedJog(motion)
           c == [motion EXCEPT !.pending = None]
           k == [motion EXCEPT !.active = None, !.pending = None,
                               !.interp = NewInterpreter]
<1>1. motion \in Motion /\ JogInv(startup, recovery, power, motion)
  BY MotionInvFacts DEF MotionIInv, IInv, PowerInv
<1>2. motion' = n /\ UNCHANGED <<startup, recovery, power>>
  BY DEF ObserveManualProbeStop
<1>3. /\ c \in Motion /\ c.phase = motion.phase /\ c.active = motion.active
      /\ c.fault = motion.fault /\ c.collision = motion.collision
      /\ c.limitReset = motion.limitReset /\ c.pending = None
      /\ c.mode = motion.mode /\ c.homingWas = motion.homingWas
      /\ c.command = motion.command
  BY <1>1 DEF Motion
<1>4. /\ k \in Motion /\ k.phase = motion.phase /\ k.active = None
      /\ k.fault = motion.fault /\ k.collision = motion.collision
      /\ k.limitReset = motion.limitReset /\ k.pending = None
      /\ k.mode = motion.mode /\ k.homingWas = motion.homingWas
      /\ k.command = motion.command
  BY <1>1, InterpreterFacts DEF Motion
<1>5. \/ n = motion \/ n = c
      \/ /\ motion.phase \in {"Idle", "StoppingCancel", "StoppingReplace"}
         /\ n = To(k, "Idle")
  BY DEF RetireProbedJog
<1> HIDE DEF n, c, k
<1>6. CASE n \in {motion, c}
  <2>1. Shape(n)
    BY <1>1, <1>3, <1>6 DEF JogInv, Shape
  <2>2. JogInv(startup, recovery, power, n)
    BY <1>1, <1>3, <1>6, <2>1 DEF JogInv, Latched
  <2> QED BY <1>2, <1>3, <1>6, <2>2 DEF Called
<1>7. CASE /\ motion.phase \in {"Idle", "StoppingCancel", "StoppingReplace"}
           /\ n = To(k, "Idle")
  <2>1. "Idle" \in Phases
    BY PhaseFacts
  <2>2. /\ n.phase = "Idle" /\ n.active = None /\ n.fault = motion.fault
        /\ n.collision = motion.collision
        /\ n.limitReset = motion.limitReset /\ n.pending = None
        /\ n.mode = motion.mode /\ n.homingWas = motion.homingWas
        /\ n.command = motion.command
    BY <1>4, <1>7, <2>1, ToType
  <2>3. Shape(n)
    BY <1>1, <1>7, <2>2, PhaseSets DEF JogInv, Shape
  <2>4. JogInv(startup, recovery, power, n)
    BY <1>1, <1>7, <2>2, <2>3 DEF JogInv, Latched
  <2> QED BY <1>2, <2>2, <2>4 DEF Called
<1> QED BY <1>5, <1>6, <1>7

-----------------------------------------------------------------------------
(* The invariant and the theorems                                           *)

LEMMA InitMotionIInv == Init => MotionIInv
<1> SUFFICES ASSUME Init PROVE MotionIInv
  OBVIOUS
<1>1. /\ InitMotion.phase = "Idle" /\ InitMotion.active = None
      /\ InitMotion.pending = None /\ InitMotion.collision = None
      /\ InitMotion.limitReset = {} /\ InitMotion.command = None
      /\ InitPower.step = "None"
  BY DEF InitMotion, InitPower
<1>2. JogInv(TRUE, InactiveRecovery, InitPower, InitMotion)
  BY <1>1, PhaseSets, NotIncrements DEF JogInv, Shape, Latched
<1> QED BY <1>2, InitIInv, Zenon DEF Init, MotionIInv

LEMMA StepJogs ==
    ASSUME MotionIInv, [Next]_vars
    PROVE  \/ \E i \in Inputs : Update(i) /\ Jogs(motion, i)
           \/ Called(motion)
           \/ UNCHANGED vars
<1>1. Inputs \subseteq Input
  BY InputsAssumption
<1>2. ASSUME NEW i \in Inputs, Update(i) PROVE Jogs(motion, i)
  BY <1>1, <1>2, UpdateJogs
<1>3. ASSUME NEW i \in Inputs, ClearAndReset(i) PROVE Called(motion)
  BY <1>1, <1>3, ClearAndResetJogs
<1> QED
  BY <1>2, <1>3, RuntimeFaultJogs, ClearLatchedFaultJogs, RetireJogs DEF Next

LEMMA NextMotionIInv == MotionIInv /\ [Next]_vars => MotionIInv'
<1> SUFFICES ASSUME MotionIInv, [Next]_vars PROVE MotionIInv'
  OBVIOUS
<1>1. IInv'
  BY NextIInv DEF MotionIInv
<1>2. JogInv(startup', recovery', power', motion')
  <2>1. CASE UNCHANGED vars
    BY <2>1 DEF vars, MotionIInv
  <2> QED BY <2>1, StepJogs DEF Jogs, Called
<1> QED BY <1>1, <1>2 DEF MotionIInv

LEMMA MotionInvariance == Spec => []MotionIInv
BY InitMotionIInv, NextMotionIInv, PTL DEF Spec

(* What MotionIInv says of the state the supervisor is in.                  *)
LEMMA MotionShows ==
    MotionIInv => /\ LatchResetHasAnOwner /\ PhasesKeepTheirSubject
                  /\ OnlyAwayFromTheLimit /\ IncrementsNeedArming
<1>1. MotionIInv => LatchResetHasAnOwner
  BY DEF MotionIInv, JogInv, Latched, LatchResetHasAnOwner
<1>2. MotionIInv => PhasesKeepTheirSubject
  BY DEF MotionIInv, JogInv, Shape, MovingPhases, PhasesKeepTheirSubject
<1>3. MotionIInv => OnlyAwayFromTheLimit /\ IncrementsNeedArming
  BY DEF MotionIInv, JogInv, Shape, OnlyAwayFromTheLimit, IncrementsNeedArming
<1> QED BY <1>1, <1>2, <1>3

(* limits.rs, recovery.rs: a realtime limit latch is held in reset only by  *)
(* the backoff just finished, an explicit reset of stale latches or homing. *)
THEOREM LatchResetsAreOwned == Spec => []LatchResetHasAnOwner
BY MotionShows, MotionInvariance, PTL

(* jog.rs: a phase that waits for motion keeps its jog, one of the limit    *)
(* release its switch, and no jog is left in a phase that does not watch it.*)
THEOREM SubjectsAreKept == Spec => []PhasesKeepTheirSubject
BY MotionShows, MotionInvariance, PTL

(* README.md "Other axes and the toward direction remain blocked".          *)
THEOREM LimitsAreLeftAway == Spec => []OnlyAwayFromTheLimit
BY MotionShows, MotionInvariance, PTL

(* update.rs: an increment needs an open gate, no step of a recovery and,   *)
(* unless it is the automatic backoff, Pendant Mode.                        *)
THEOREM IncrementsAreArmed == Spec => []IncrementsNeedArming
BY MotionShows, MotionInvariance, PTL

(* README.md "Axis changes and direction reversals stop first": no call of  *)
(* update() turns the jog unless LinuxCNC reports all motion stopped, or    *)
(* this jog settled on its target.                                          *)
THEOREM ReversalsAreStopped == Spec => ReversalsStopFirst
<1> DEFINE A == Reverses =>
        \A i \in Inputs :
            ~AllStopped(i) /\ ~(PathSettled(i) /\ TargetReached(i)) => ~Update(i)
<1>1. MotionIInv /\ [Next]_vars => [A]_vars
  <2> SUFFICES ASSUME MotionIInv, Reverses, NEW i \in Inputs, Update(i)
               PROVE  AllStopped(i) \/ (PathSettled(i) /\ TargetReached(i))
    OBVIOUS
  <2>1. i \in Input
    BY InputsAssumption
  <2>2. Turns(motion, motion', i)
    BY <2>1, UpdateJogs DEF Jogs, Kept
  <2> QED BY <2>2 DEF Turns, Free, Reverses
<1>2. Spec => [][A]_vars
  BY <1>1, MotionInvariance, PTL DEF Spec
<1> QED BY <1>2 DEF ReversalsStopFirst

(* latch_fault(), engage_estop(), clear_latched_fault(): a jog that a       *)
(* fault, a press, a clear or a reset takes away is stopped at once.        *)
THEOREM AbandonedJogsStop == Spec => AbandonedJogsAreStopped
<1> DEFINE A == (motion.active # None /\ motion'.active = None /\ Interrupts)
                => motion'.command = JogStopImmediate
<1>1. MotionIInv /\ [Next]_vars => [A]_vars
  <2> SUFFICES ASSUME MotionIInv, [Next]_vars, motion.active # None,
                      motion'.active = None, Interrupts
               PROVE  motion'.command = JogStopImmediate
    OBVIOUS
  <2>1. CASE \E i \in Inputs : Update(i) /\ Jogs(motion, i)
    BY <2>1 DEF Jogs, Kept
  <2>2. CASE Called(motion)
    <3>1. motion.fault = None
      <4>1. MotionInv(motion)
        BY DEF MotionIInv, IInv, PowerInv
      <4> QED BY <4>1, MotionInvFacts DEF Faulted, Inert
    <3> QED BY <2>2, <3>1 DEF Called, Interrupts
  <2>3. CASE UNCHANGED vars
    BY <2>3 DEF vars
  <2> QED BY <2>1, <2>2, <2>3, StepJogs
<1>2. Spec => [][A]_vars
  BY <1>1, MotionInvariance, PTL DEF Spec
<1> QED BY <1>2 DEF AbandonedJogsAreStopped

(* limits.rs, jog.rs: an attributed limit is forgotten only after its latch *)
(* read back clear, or in a cycle that stops all motion at once.            *)
THEOREM AttributionsAreKept == Spec => AttributionIsKept
<1> DEFINE A == (motion.collision # None
                     /\ motion'.collision # motion.collision)
                => \/ motion'.command = JogStopImmediate
                   \/ /\ motion.phase = "BounceResetValidate"
                      /\ \A i \in Inputs : i.safety # {} => ~Update(i)
<1>1. MotionIInv /\ [Next]_vars => [A]_vars
  <2> SUFFICES ASSUME MotionIInv, [Next]_vars, motion.collision # None,
                      motion'.collision # motion.collision,
                      motion'.command # JogStopImmediate
               PROVE  /\ motion.phase = "BounceResetValidate"
                      /\ \A i \in Inputs : i.safety # {} => ~Update(i)
    OBVIOUS
  <2>1. ASSUME NEW i \in Inputs, Update(i) PROVE Releases(motion, i)
    <3>1. i \in Input
      BY InputsAssumption
    <3>2. Jogs(motion, i)
      BY <2>1, <3>1, UpdateJogs
    <3> QED BY <3>2 DEF Jogs, Kept
  <2>2. ~Called(motion)
    BY DEF Called
  <2>3. ~UNCHANGED vars
    BY DEF vars
  <2>4. \E i \in Inputs : Update(i)
    BY <2>2, <2>3, StepJogs
  <2> QED BY <2>1, <2>4 DEF Releases
<1>2. Spec => [][A]_vars
  BY <1>1, MotionInvariance, PTL DEF Spec
<1> QED BY <1>2 DEF AttributionIsKept

(* advance_recovery() enters no phase of the startup.                       *)
LEMMA AdvanceRecoveryPhase ==
    ASSUME NEW r, NEW p, NEW m, m \in Motion, m.fault = None,
           m.phase \notin StartupPhases,
           NEW i \in Input, AdvanceRecovery(r, p, m, i)
    PROVE  motion'.phase \notin StartupPhases
<1>1. ASSUME NEW code \in Faults PROVE Fail(m, code).phase = "Idle"
  BY FailFields
<1>2. /\ "LimitDuringRecovery" \in Faults
      /\ "LimitLatchResetTimedOut" \in Faults
  BY DEF Faults
<1>3. motion' \in {m, [m EXCEPT !.limitReset = {}],
                   [m EXCEPT !.interp = NewInterpreter],
                   Fail(m, "LimitDuringRecovery"),
                   Fail(m, "LimitLatchResetTimedOut")}
  BY DEF AdvanceRecovery, AdvanceLimitReset, AdvanceRequests, SettleFault,
         Recovered, Settle
<1>4. /\ [m EXCEPT !.limitReset = {}].phase = m.phase
      /\ [m EXCEPT !.interp = NewInterpreter].phase = m.phase
  BY DEF Motion
<1> QED BY <1>1, <1>2, <1>3, <1>4, PhaseSplit

LEMMA ResetMotionPhase ==
    ASSUME NEW m \in Motion, m.fault = None, NEW i \in Input
    PROVE  ResetMotion(m, i).phase \notin StartupPhases
BY ResetMotionSafe, SafeMotion

(* Once decided, the startup is not decided again and not re-entered.       *)
LEMMA UpdateDecides ==
    ASSUME IInv, ~startup, NEW i \in Input, Update(i)
    PROVE  /\ ~startup'
           /\ motion'.phase \in StartupPhases => motion.phase \in StartupPhases
<1> DEFINE m == BeginCycle(motion, i)
<1>1. PowerInv(startup, recovery, power, m)
  BY BeginCycleKeeps DEF IInv
<1>2. motion.phase \notin StartupPhases => m.phase \notin StartupPhases
  BY BeginCycleFacts DEF IInv, PowerInv
<1>3. \/ HeldByFault(m) \/ AwaitLink(m) \/ HoldEstop(m, i)
      \/ AcceptAxisReset(m, i) \/ PowerStep(m, i) \/ FollowGesture(m, i)
      \/ LinkFault(m, i) \/ Operate(m, i)
  BY DEF Update
<1> HIDE DEF m
<1>4. m \in Motion /\ MotionInv(m)
  BY <1>1, MotionInvFacts DEF PowerInv
<1>5. ~startup'
  BY <1>3 DEF HeldByFault, AwaitLink, HoldEstop, AcceptAxisReset, PowerStep,
              FollowGesture, LinkFault, Operate, BeginLinuxcncEstopReset
<1>6. ASSUME m.phase \notin StartupPhases
      PROVE  motion'.phase \notin StartupPhases
  <2>1. CASE HeldByFault(m) \/ AwaitLink(m)
    BY <1>6, <2>1 DEF HeldByFault, AwaitLink
  <2>2. CASE HoldEstop(m, i)
    BY <1>4, <1>6, <2>2, EngagedFacts, PhaseSplit DEF HoldEstop, Inert
  <2>3. CASE AcceptAxisReset(m, i)
    <3> DEFINE n == ResetMotion(m, i)
    <3>1. m.fault = None
      BY <2>3 DEF AcceptAxisReset, Operable
    <3>2. n.phase \notin StartupPhases /\ n \in Motion
      BY <1>4, <3>1, ResetMotionPhase, ResetMotionSafe DEF Safe
    <3>3. CASE n.fault # None
      BY <2>3, <3>2, <3>3 DEF AcceptAxisReset, BeginLinuxcncEstopReset, Settle
    <3>4. CASE n.fault = None
      <4>1. AdvanceRecovery(InactiveRecovery, ResetPower(power, i), n, i)
        BY <2>3, <3>4 DEF AcceptAxisReset
      <4> HIDE DEF n
      <4> QED BY <3>2, <3>4, <4>1, AdvanceRecoveryPhase
    <3> QED BY <3>3, <3>4
  <2>4. CASE PowerStep(m, i)
    <3>1. m.fault = None
      BY <2>4 DEF PowerStep, Operable
    <3>2. CASE BeginLinuxcncEstopReset(power, m, i)
      BY <1>4, <3>1, <3>2, ResetMotionPhase DEF BeginLinuxcncEstopReset, Settle
    <3>3. CASE Settle(recovery, Closed(power), m)
      BY <1>6, <3>3 DEF Settle
    <3>4. CASE AdvanceRecovery(recovery, power, m, i)
      BY <1>4, <1>6, <3>1, <3>4, AdvanceRecoveryPhase
    <3> QED BY <2>4, <3>2, <3>3, <3>4 DEF PowerStep
  <2>5. CASE FollowGesture(m, i)
    BY <1>6, <2>5 DEF FollowGesture, Settle
  <2>6. CASE LinkFault(m, i)
    <3>1. ASSUME NEW code \in Faults PROVE Fail(m, code).phase = "Idle"
      BY <1>4, <2>6, FailFields DEF LinkFault, Running, Operable
    <3> QED BY <2>6, <3>1, PhaseSplit DEF LinkFault, SettleFault, Settle, Faults
  <2>7. CASE Operate(m, i)
    <3>1. StartupMotion(m, i) = m
      BY DEF StartupMotion
    <3>2. motion' = RunMotion(m, i) /\ m.fault = None
      BY <1>6, <2>7, <3>1
         DEF Operate, Running, Operable, Settle, StartupPhases
    <3>3. Live(m)
      BY <1>4, <1>6, <3>2, MotionInvFacts
    <3> QED BY <3>2, <3>3, RunMotionSafe, SafeMotion
  <2> QED BY <1>3, <2>1, <2>2, <2>3, <2>4, <2>5, <2>6, <2>7
<1> QED BY <1>2, <1>5, <1>6

(* controller/mod.rs: the startup decision is taken once, and no phase of   *)
(* the startup is entered from outside it.                                  *)
THEOREM StartupIsDecidedOnce == Spec => StartupHappensOnce
<1> DEFINE A == ~startup =>
        /\ ~startup'
        /\ motion'.phase \in StartupPowerPhases \cup StartupBouncePhases =>
              motion.phase \in StartupPowerPhases \cup StartupBouncePhases
<1>1. IInv /\ [Next]_vars => [A]_vars
  <2> SUFFICES ASSUME IInv, Next, ~startup
               PROVE  /\ ~startup'
                      /\ motion'.phase \in StartupPhases =>
                            motion.phase \in StartupPhases
    BY DEF StartupPhases
  <2>1. Inputs \subseteq Input
    BY InputsAssumption
  <2>2. motion \in Motion /\ MotionInv(motion)
    BY MotionInvFacts DEF IInv, PowerInv
  <2>3. ClearedMotion.phase \notin StartupPhases /\ Live(ClearedMotion)
    BY ClearedFacts, PhaseSplit DEF Live
  <2>4. ASSUME NEW i \in Inputs, ClearAndReset(i)
        PROVE  ~startup' /\ motion'.phase \notin StartupPhases
    <3>1. ResetMotion(ClearedMotion, i).phase \notin StartupPhases
      BY <2>1, <2>3, ResetMotionPhase DEF Live
    <3> QED BY <2>4, <3>1
               DEF ClearAndReset, BeginLinuxcncEstopReset, Settle
  <2>5. CASE ClearLatchedFault
    BY <2>3, <2>5 DEF ClearLatchedFault
  <2>6. ASSUME NEW code \in RuntimeFaults, RuntimeFault(code)
        PROVE  ~startup' /\ motion'.phase = "Idle"
    <3>1. code \in Faults
      BY DEF RuntimeFaults, Faults
    <3> QED BY <2>2, <2>6, <3>1, FailFields
               DEF RuntimeFault, SettleFault, Settle
  <2>7. CASE ObserveManualProbeStop
    <3> DEFINE k == [motion EXCEPT !.active = None, !.pending = None,
                                   !.interp = NewInterpreter]
    <3>1. k \in Motion
      BY <2>2, InterpreterFacts DEF Motion
    <3>2. motion' \in {motion, [motion EXCEPT !.pending = None], To(k, "Idle")}
      BY <2>7 DEF ObserveManualProbeStop, RetireProbedJog
    <3> HIDE DEF k
    <3>3. To(k, "Idle").phase = "Idle"
      BY <3>1, ToType, PhaseFacts
    <3>4. [motion EXCEPT !.pending = None].phase = motion.phase
      BY <2>2 DEF Motion
    <3> QED BY <2>7, <3>2, <3>3, <3>4, PhaseSplit DEF ObserveManualProbeStop
  <2> QED
    BY <2>1, <2>4, <2>5, <2>6, <2>7, UpdateDecides, PhaseSplit DEF Next
<1>2. Spec => [][A]_vars
  BY <1>1, IInvariance, PTL DEF Spec
<1> QED BY <1>2 DEF StartupHappensOnce
-----------------------------------------------------------------------------
(* The runtime                                                              *)

RuntimeTypes ==
    /\ mesa \in Mesa /\ guard \in Watchdog
    /\ cache \in Cache /\ task \in Freshness /\ nano \in Freshness
    /\ unread \in BOOLEAN /\ held \in BOOLEAN /\ decoder \in Decoder

RuntimeInv == IInv /\ RuntimeTypes /\ GuardFaultsAreHeld /\ PressIsObeyed
-----------------------------------------------------------------------------
(* The guards                                                               *)

LEMMA TickType == 0 \in GuardTimer /\ \A t \in GuardTimer : Tick(t) \in GuardTimer
BY GuardAssumption DEF GuardTimer, Tick

LEMMA MesaToType ==
    ASSUME NEW g \in Mesa, NEW phase \in MesaPhases, NEW reset \in BOOLEAN
    PROVE  /\ MesaTo(g, phase, reset) \in Mesa
           /\ MesaTo(g, phase, reset).phase = phase
BY TickType DEF MesaTo, Mesa

LEMMA NewGuards == NewMesa \in Mesa /\ NewWatchdog \in Watchdog
BY TickType DEF NewMesa, Mesa, MesaPhases, NewWatchdog, Watchdog, WatchdogPhases

LEMMA MesaType ==
    ASSUME NEW b \in Mesa, NEW s \in BOOLEAN, NEW h \in BOOLEAN, NEW e \in BOOLEAN
    PROVE  MesaUpdated(b, s, h, e) \in Mesa
<1> DEFINE g == [b EXCEPT !.clear = FALSE]
           started == IF g.phase = "WaitServo"
                      THEN MesaTo(g, "WatchdogStable", g.reset) ELSE g
           ticked == [started EXCEPT !.elapsed = Tick(@)]
           bitten == MesaTo(g, "WatchdogStable", FALSE)
<1>1. {"Fault", "Ready", "WatchdogStable", "LimitReset", "LimitSettle"} \subseteq MesaPhases
  BY DEF MesaPhases
<1>2. g \in Mesa /\ g.reset \in BOOLEAN
  BY DEF Mesa
<1> HIDE DEF g
<1>3. started \in Mesa /\ bitten \in Mesa
  BY <1>1, <1>2, MesaToType
<1> HIDE DEF started, bitten
<1>4. /\ ticked \in Mesa /\ ticked.reset \in BOOLEAN
      /\ [bitten EXCEPT !.clear = TRUE] \in Mesa
  BY <1>3, TickType DEF Mesa
<1> HIDE DEF ticked
<1>5. /\ MesaTo(g, "Fault", FALSE) \in Mesa
      /\ MesaTo(ticked, "LimitReset", TRUE) \in Mesa
      /\ MesaTo(ticked, "LimitSettle", FALSE) \in Mesa
      /\ MesaTo(ticked, "Ready", ticked.reset) \in Mesa
  BY <1>1, <1>2, <1>4, MesaToType
<1>6. MesaUpdated(b, s, h, e) \in
        {g, ticked, MesaTo(g, "Fault", FALSE), [bitten EXCEPT !.clear = TRUE],
         MesaTo(ticked, "LimitReset", TRUE), MesaTo(ticked, "LimitSettle", FALSE),
         MesaTo(ticked, "Ready", ticked.reset)}
  BY DEF MesaUpdated, g, started, ticked, bitten
<1> QED BY <1>2, <1>4, <1>5, <1>6

LEMMA WatchdogToType ==
    ASSUME NEW w \in Watchdog, NEW phase \in WatchdogPhases, NEW enable \in BOOLEAN
    PROVE  WatchdogTo(w, phase, enable) \in Watchdog
BY TickType DEF WatchdogTo, Watchdog

LEMMA WatchdogType ==
    ASSUME NEW w \in Watchdog, NEW ok \in BOOLEAN, NEW p \in BOOLEAN
    PROVE  WatchdogUpdated(w, ok, p) \in Watchdog
<1> DEFINE ticked == [w EXCEPT !.elapsed = Tick(@)]
<1>1. WatchdogPhases =
        {"WaitPrerequisites", "ArmLow", "WaitOk", "Stable", "Ready", "Fault"}
  BY DEF WatchdogPhases
<1>2. ticked \in Watchdog /\ w.enable \in BOOLEAN /\ w.phase \in WatchdogPhases
  BY TickType DEF Watchdog
<1> HIDE DEF ticked
<1>3. /\ \A b \in BOOLEAN, x \in WatchdogPhases : WatchdogTo(w, x, b) \in Watchdog
  BY WatchdogToType
<1>4. ReadyWatchdog(w, ok, p) \in Watchdog
  BY <1>1, <1>3 DEF ReadyWatchdog
<1>5. w.phase \notin {"Ready", "Fault"} => ArmingWatchdog(w, ok) \in Watchdog
  <2>1. CASE w.phase = "WaitPrerequisites"
    BY <1>1, <1>3, <2>1 DEF ArmingWatchdog
  <2>2. CASE w.phase = "ArmLow"
    BY <1>1, <1>2, <1>3, <2>2 DEF ArmingWatchdog, ticked
  <2>3. CASE w.phase = "WaitOk"
    BY <1>1, <1>2, <1>3, <2>3 DEF ArmingWatchdog, ticked
  <2>4. CASE w.phase = "Stable"
    BY <1>1, <1>2, <1>3, <2>4 DEF ArmingWatchdog, ticked
  <2> QED BY <1>1, <1>2, <2>1, <2>2, <2>3, <2>4
<1> QED BY <1>1, <1>3, <1>4, <1>5 DEF WatchdogUpdated
-----------------------------------------------------------------------------
(* What a cycle makes of a frame                                            *)

LEMMA FreshnessType ==
    ASSUME NEW x \in Freshness, NEW b \in BOOLEAN
    PROVE  Elapsed(x) \in Freshness /\ Refreshed(x, b) \in Freshness
BY RuntimeAssumption DEF Freshness, Age, Elapsed, Refreshed, Older

LEMMA SampledType ==
    ASSUME RuntimeTypes, NEW f \in Frame
    PROVE  /\ TaskSeen(f) \in Freshness /\ NanoSeen(f) \in Freshness
           /\ Seen(f) \in Cache
           /\ f.coherent \in BOOLEAN /\ f.resetLine \in BOOLEAN
           /\ Unread(f) \in BOOLEAN /\ Rising(f) \in BOOLEAN
<1>1. f.beat \in BOOLEAN /\ f.news \in BOOLEAN /\ f.sample \in Sample
  BY DEF Frame
<1>2. TaskSeen(f) \in Freshness /\ NanoSeen(f) \in Freshness
  BY <1>1, FreshnessType DEF RuntimeTypes, TaskSeen, NanoSeen
<1>3. Seen(f) \in Cache
  BY <1>1 DEF RuntimeTypes, Seen, Cache, Frame, Sample
<1>4. f.coherent \in BOOLEAN /\ f.resetLine \in BOOLEAN
  BY DEF Frame
<1>5. Unread(f) \in BOOLEAN /\ Rising(f) \in BOOLEAN
  BY DEF Unread, Rising
<1> QED BY <1>2, <1>3, <1>4, <1>5

LEMMA InputType ==
    ASSUME RuntimeTypes, NEW f \in Frame
    PROVE  /\ SupervisorInput(f) \in Input
           /\ SupervisorInput(f).pressed = Seen(f).pressed
           /\ SupervisorInput(f).packet = NewPacket(f)
           /\ SupervisorInput(f).mode = Armed(f, f.hal.mode)
           /\ SupervisorInput(f).commandReady = f.hal.commandReady
           /\ SupervisorInput(f).togo = f.hal.togo
<1> DEFINE h == f.hal
           p == Seen(f).pressed
           l == ~Trusted(Seen(f))
           q == Seen(f).quadratureFault
           k == NewPacket(f)
           m == Armed(f, h.mode)
           r == Rising(f)
           i == SupervisorInput(f)
<1>1. h \in Input /\ f.sample \in Sample
  BY DEF Frame
<1>2. Seen(f) \in Cache /\ r \in BOOLEAN
  BY SampledType
<1>3. p \in BOOLEAN /\ q \in BOOLEAN
  BY <1>2 DEF Cache
<1>4. l \in BOOLEAN
  BY DEF Trusted
<1>5. k \in Sample \cup {None}
  BY <1>1 DEF NewPacket
<1>6. m \in BOOLEAN
  BY <1>1 DEF Armed, Input
<1>7. i = [h EXCEPT !.pressed = p, !.linkLost = l, !.quadratureFault = q,
                    !.packet = k, !.mode = m, !.resetRising = r]
  BY DEF SupervisorInput
<1> HIDE DEF h, p, l, q, k, m, r, i
<1>8. i = [pressed |-> p, linkLost |-> l, quadratureFault |-> q, packet |-> k,
           estopped |-> h.estopped, machineOn |-> h.machineOn,
           homing |-> h.homing, path |-> h.path, raw |-> h.raw,
           safety |-> h.safety, mode |-> m, commandReady |-> h.commandReady,
           resetRising |-> r, consumer |-> h.consumer, togo |-> h.togo,
           feedback |-> h.feedback]
  BY <1>1, <1>7 DEF Input
<1>9. /\ h.estopped \in BOOLEAN /\ h.machineOn \in BOOLEAN /\ h.homing \in BOOLEAN
      /\ h.path \in Paths \cup {None} /\ h.raw \in SUBSET Motors
      /\ h.safety \in SUBSET Motors /\ h.commandReady \in BOOLEAN
      /\ h.consumer \in {"active", "settling", "settled", "stopped"}
      /\ h.togo \in Int /\ h.feedback \in BOOLEAN
  BY <1>1 DEF Input
<1>10. /\ i \in Input /\ i.pressed = p /\ i.packet = k /\ i.mode = m
       /\ i.commandReady = h.commandReady /\ i.togo = h.togo
  BY <1>2, <1>3, <1>4, <1>5, <1>6, <1>8, <1>9 DEF Input
<1> QED BY <1>10 DEF i, p, k, m, h

LEMMA DecoderType ==
    ASSUME RuntimeTypes, NEW f \in Frame
    PROVE  /\ DecoderAwaited(f) \in Decoder
           /\ \A d \in Decoder : Requested(d) \in Decoder /\ Withdrawn(d) \in Decoder
<1>1. \A n \in 0..Requests : (n % Requests) + 1 \in 0..Requests
  BY RuntimeAssumption
<1>2. 0 \in Age /\ \A a \in Age : Older(a) \in Age
  BY RuntimeAssumption DEF Age, Older
<1>3. \A d \in Decoder : Requested(d) \in Decoder /\ Withdrawn(d) \in Decoder
  BY <1>1, <1>2 DEF Decoder, Requested, Withdrawn
<1>4. [decoder EXCEPT !.elapsed = Older(@)] \in Decoder
  BY <1>2 DEF RuntimeTypes, Decoder
<1> QED BY <1>3, <1>4 DEF RuntimeTypes, DecoderAwaited
-----------------------------------------------------------------------------
(* The supervisor's invariant survives what a cycle of the runtime does     *)

(* fail() and update() in one cycle.                                        *)
LEMMA FaultedUpdateKeeps ==
    ASSUME IInv, NEW code \in Faults, NEW i \in Input, FaultedUpdate(code, i)
    PROVE  IInv' /\ ~power'.gate
<1> DEFINE m == Fail(motion, code)
           p == Dropped(power)
           n == BeginCycle(m, i)
<1>1. /\ MotionInv(motion) /\ startup \in BOOLEAN /\ GestureInv(recovery)
      /\ power \in Power
  BY DEF IInv, PowerInv
<1>2. Faulted(m)
  BY <1>1, MotionInvFacts, FailSafe DEF Faulted, Safe
<1>3. PowerInv(startup, recovery, p, m)
  BY <1>1, <1>2, FaultKeeps
<1> HIDE DEF m
<1>4. PowerInv(startup, recovery, p, n)
  BY <1>3, BeginCycleKeeps
<1> HIDE DEF p, n
<1>5. PowerInv(startup, recovery, Closed(p), n)
  BY <1>4, ClosedKeeps
<1>6. ~Closed(p).gate
  BY <1>3 DEF Closed, PowerInv, Power
<1>7. /\ motion' = n /\ power' = Closed(p) /\ ready' = FALSE
      /\ UNCHANGED <<startup, recovery>>
      /\ link' = (link \/ i.packet # None)
  BY DEF FaultedUpdate, m, n, p
<1> QED BY <1>5, <1>6, <1>7 DEF IInv

(* A cycle with the button pressed never leaves the gate open.              *)
LEMMA PressedUpdate ==
    ASSUME IInv, NEW i \in Input, i.pressed, Update(i)
    PROVE  ~power'.gate
<1>1. power \in Power
  BY DEF IInv, PowerInv
<1>2. ~Closed(power).gate /\ ~Dropped(power).gate
  BY <1>1, DroppedPower DEF Closed, Power
<1> QED
  BY <1>2 DEF Update, HeldByFault, AwaitLink, HoldEstop, AcceptAxisReset,
              PowerStep, FollowGesture, LinkFault, Operate, Running

LEMMA GuardFaultFacts ==
    ASSUME NEW f, NEW m, NEW w
    PROVE  /\ GuardFault(f, m, w) \in RuntimeFaults \cup {None}
           /\ GuardFault(f, m, w) # None => motion.fault = None
           /\ motion.fault = None /\ (m.phase = "Fault" \/ w.phase = "Fault") =>
                  GuardFault(f, m, w) # None
<1>1. RuntimeFaults \subseteq Faults /\ None \notin RuntimeFaults
  BY NoneFacts DEF RuntimeFaults, Faults
<1>2. {"LinkFailure", "PacketTimeout", "QuadratureFailure", "MesaStartupFailure",
       "ControllerWatchdogFailure"} \subseteq RuntimeFaults
  BY DEF RuntimeFaults
<1> QED BY <1>1, <1>2 DEF GuardFault

LEMMA RuntimeFaultFacts ==
    ASSUME IInv, NEW code \in RuntimeFaults, RuntimeFault(code)
    PROVE  motion'.fault # None /\ ~power'.gate
<1>1. code \in Faults /\ MotionInv(motion) /\ power \in Power
  BY DEF RuntimeFaults, Faults, IInv, PowerInv
<1>2. Fail(motion, code).fault # None
  BY <1>1, MotionInvFacts, FailSafe DEF Faulted
<1> QED BY <1>1, <1>2, DroppedPower DEF RuntimeFault, SettleFault, Settle

(* clear_fault_state(): no guard is left faulted.                           *)
LEMMA ClearedGuards ==
    ASSUME RuntimeTypes, ClearGuards
    PROVE  /\ mesa' \in Mesa /\ guard' \in Watchdog
           /\ mesa'.phase # "Fault" /\ guard'.phase # "Fault"
BY NewGuards DEF ClearGuards, MesaCleared, WatchdogCleared, NewMesa, NewWatchdog,
                 RuntimeTypes

LEMMA ClearFaultKeeps ==
    ASSUME RuntimeInv, NEW f \in Frame, ClearFault(f)
    PROVE  RuntimeInv'
<1>1. IInv' /\ ~power'.gate
  BY ClearLatchedFaultKeeps, ClearedFacts DEF RuntimeInv, ClearFault, ClearLatchedFault
<1>2. /\ mesa' \in Mesa /\ guard' \in Watchdog
      /\ mesa'.phase # "Fault" /\ guard'.phase # "Fault"
  BY ClearedGuards DEF RuntimeInv, ClearFault
<1>3. decoder' \in Decoder
  BY DecoderType DEF RuntimeInv, RuntimeTypes, ClearFault
<1>4. held' \in BOOLEAN
  BY DEF ClearFault, Frame
<1> QED
  BY <1>1, <1>2, <1>3, <1>4
     DEF RuntimeInv, RuntimeTypes, ClearFault, GuardFaultsAreHeld, PressIsObeyed

LEMMA ClearByResetKeeps ==
    ASSUME RuntimeInv, NEW f \in Frame, ClearByReset(f)
    PROVE  RuntimeInv'
<1>0. RuntimeTypes /\ IInv
  BY DEF RuntimeInv
<1>1. \/ ClearLatchedFault
      \/ ~Seen(f).pressed /\ ClearAndReset(SupervisorInput(f))
  BY DEF ClearByReset, MayReset
<1>2. IInv' /\ (Seen(f).pressed => ~power'.gate)
  BY <1>0, <1>1, InputType, ClearLatchedFaultKeeps, ClearAndResetKeeps, ClearedFacts
     DEF ClearLatchedFault
<1>3. /\ mesa' \in Mesa /\ guard' \in Watchdog
      /\ mesa'.phase # "Fault" /\ guard'.phase # "Fault"
  BY <1>0, ClearedGuards DEF ClearByReset
<1>4. decoder' \in Decoder
  BY <1>0, DecoderType DEF ClearByReset
<1>5. /\ held' \in BOOLEAN /\ task' \in Freshness /\ cache' \in Cache
      /\ nano' \in Freshness /\ unread' \in BOOLEAN /\ cache' = Seen(f)
  BY <1>0, SampledType DEF ClearByReset, Sampled
<1> QED
  BY <1>2, <1>3, <1>4, <1>5
     DEF RuntimeInv, RuntimeTypes, GuardFaultsAreHeld, PressIsObeyed

LEMMA SuperviseKeeps ==
    ASSUME RuntimeInv, NEW f \in Frame, NEW m \in Mesa, NEW w \in Watchdog,
           Supervise(f, m, w)
    PROVE  /\ IInv'
           /\ guard' \in Watchdog /\ guard'.phase = w.phase
           /\ unread' \in BOOLEAN
           /\ m.phase = "Fault" \/ w.phase = "Fault" => motion'.fault # None
           /\ Seen(f).pressed /\ m.phase = "Ready" /\ w.phase = "Ready" =>
                  ~power'.gate
<1> DEFINE i == SupervisorInput(f)
           fault == GuardFault(f, m, w)
           running == m.phase = "Ready" /\ w.phase = "Ready"
<1>0. RuntimeTypes /\ IInv
  BY DEF RuntimeInv
<1>1. i \in Input /\ i.pressed = Seen(f).pressed
  BY <1>0, InputType
<1>2. /\ fault \in RuntimeFaults \cup {None}
      /\ fault # None => motion.fault = None
      /\ motion.fault = None /\ (m.phase = "Fault" \/ w.phase = "Fault") =>
             fault # None
  BY GuardFaultFacts
<1>3. /\ \/ running /\ fault = None /\ Update(i)
         \/ running /\ fault # None /\ FaultedUpdate(fault, i)
         \/ ~running /\ fault # None /\ RuntimeFault(fault)
         \/ ~running /\ fault = None /\ UNCHANGED vars
      /\ guard' \in {w, [w EXCEPT !.committed = TRUE]}
      /\ unread' \in BOOLEAN
  BY DEF Supervise
<1> HIDE DEF i, fault
<1>4. guard' \in Watchdog /\ guard'.phase = w.phase
  BY <1>3 DEF Watchdog
<1>5. CASE running /\ fault = None /\ Update(i)
  BY <1>0, <1>1, <1>3, <1>4, <1>5, UpdateKeeps, PressedUpdate
<1>6. CASE running /\ fault # None /\ FaultedUpdate(fault, i)
  <2>1. fault \in Faults
    BY <1>2, <1>6 DEF RuntimeFaults, Faults
  <2> QED BY <1>0, <1>1, <1>3, <1>4, <1>6, <2>1, FaultedUpdateKeeps
<1>7. CASE ~running /\ fault # None /\ RuntimeFault(fault)
  BY <1>0, <1>2, <1>3, <1>4, <1>7, RuntimeFaultKeeps, RuntimeFaultFacts
<1>8. CASE ~running /\ fault = None /\ UNCHANGED vars
  <2>1. IInv'
    BY <1>0, <1>8 DEF IInv, vars
  <2> QED BY <1>2, <1>3, <1>4, <1>8, <2>1 DEF vars
<1> QED BY <1>3, <1>5, <1>6, <1>7, <1>8

LEMMA OrdinaryKeeps ==
    ASSUME RuntimeInv, NEW f \in Frame, Ordinary(f)
    PROVE  RuntimeInv'
<1> DEFINE m == MesaUpdated(mesa, f.servoReady, f.hasBit, f.ioError)
           b == m.phase = "Ready" /\ f.uiReady /\ TaskValid(f) /\ PendantValid(f)
           w == WatchdogUpdated(guard, f.watchdogOk, b)
<1>0. RuntimeTypes
  BY DEF RuntimeInv
<1>1. m \in Mesa
  BY <1>0, MesaType DEF RuntimeTypes, Frame
<1>2. w \in Watchdog
  <2>1. b \in BOOLEAN /\ f.watchdogOk \in BOOLEAN /\ guard \in Watchdog
    BY <1>0 DEF RuntimeTypes, Frame
  <2> HIDE DEF b
  <2> QED BY <2>1, WatchdogType
<1>3. Supervise(f, m, w) /\ mesa' = m
  BY DEF Ordinary
<1> HIDE DEF m, w
<1>4. /\ IInv'
      /\ guard' \in Watchdog /\ guard'.phase = w.phase
      /\ unread' \in BOOLEAN
      /\ m.phase = "Fault" \/ w.phase = "Fault" => motion'.fault # None
      /\ Seen(f).pressed /\ m.phase = "Ready" /\ w.phase = "Ready" => ~power'.gate
  BY <1>1, <1>2, <1>3, SuperviseKeeps
<1>5. /\ held' \in BOOLEAN /\ task' \in Freshness /\ cache' \in Cache
      /\ nano' \in Freshness /\ cache' = Seen(f) /\ decoder' \in Decoder
  BY <1>0, SampledType, DecoderType DEF Ordinary, Sampled
<1> QED
  BY <1>1, <1>3, <1>4, <1>5
     DEF RuntimeInv, RuntimeTypes, GuardFaultsAreHeld, PressIsObeyed

(* The realtime component's two reports leave the runtime's own state.      *)
LEMMA ReportsKeep ==
    ASSUME RuntimeInv, ReportProbeStop \/ ReportChannelError \/
                       UNCHANGED <<vars, runtime>>
    PROVE  RuntimeInv'
<1>0. IInv /\ RuntimeTypes /\ GuardFaultsAreHeld /\ PressIsObeyed
  BY DEF RuntimeInv
<1>1. UNCHANGED <<mesa, guard, cache, task, nano, unread, held, decoder>>
  BY DEF ReportProbeStop, ReportChannelError, runtime
<1>2. IInv' /\ (power'.gate => power.gate) /\ (motion.fault # None => motion'.fault # None)
  <2>1. CASE ReportProbeStop
    BY <1>0, <2>1, RetireKeeps
       DEF ReportProbeStop, ObserveManualProbeStop, RetireProbedJog
  <2>2. CASE ReportChannelError
    <3>1. /\ "MotionCommandEncodingFailure" \in RuntimeFaults
          /\ RuntimeFault("MotionCommandEncodingFailure")
      BY <2>2 DEF ReportChannelError, RuntimeFaults
    <3> QED BY <1>0, <3>1, RuntimeFaultKeeps, RuntimeFaultFacts
  <2>3. CASE UNCHANGED <<vars, runtime>>
    BY <1>0, <2>3 DEF vars, IInv
  <2> QED BY <2>1, <2>2, <2>3
<1>3. RuntimeTypes'
  BY <1>0, <1>1 DEF RuntimeTypes
<1>4. GuardFaultsAreHeld' /\ PressIsObeyed'
  BY <1>0, <1>1, <1>2 DEF GuardFaultsAreHeld, PressIsObeyed
<1> QED BY <1>2, <1>3, <1>4 DEF RuntimeInv

LEMMA InitRuntimeInv == RuntimeInit => RuntimeInv
<1> SUFFICES ASSUME RuntimeInit PROVE RuntimeInv
  OBVIOUS
<1>1. IInv
  BY InitIInv DEF RuntimeInit
<1>2. RuntimeTypes
  <2>1. 0 \in Age /\ 0 \in 0..Requests
    BY RuntimeAssumption DEF Age
  <2>2. cache \in Cache
    BY DEF RuntimeInit, Cache
  <2>3. task \in Freshness /\ nano \in Freshness
    BY <2>1 DEF RuntimeInit, Freshness
  <2>4. decoder \in Decoder
    BY <2>1 DEF RuntimeInit, Decoder
  <2> QED BY <2>2, <2>3, <2>4, NewGuards DEF RuntimeInit, RuntimeTypes
<1> QED
  BY <1>1, <1>2 DEF RuntimeInit, RuntimeInv, GuardFaultsAreHeld, PressIsObeyed,
                    NewMesa, NewWatchdog

LEMMA NextRuntimeInv ==
    RuntimeInv /\ [RuntimeNext]_<<vars, runtime>> => RuntimeInv'
<1> SUFFICES ASSUME RuntimeInv, [RuntimeNext]_<<vars, runtime>> PROVE RuntimeInv'
  OBVIOUS
<1>1. Frames \subseteq Frame
  BY RuntimeAssumption
<1>2. ASSUME NEW f \in Frames, RuntimeUpdate(f) PROVE RuntimeInv'
  BY <1>1, <1>2, ClearFaultKeeps, ClearByResetKeeps, OrdinaryKeeps DEF RuntimeUpdate
<1> QED BY <1>2, ReportsKeep DEF RuntimeNext

LEMMA RuntimeInvariance == RuntimeSpec => []RuntimeInv
BY InitRuntimeInv, NextRuntimeInv, PTL DEF RuntimeSpec
-----------------------------------------------------------------------------
(* The mode switch is followed: no handler of update() after the start of   *)
(* the cycle touches it.                                                    *)

ModeIs(m, b) == "mode" \in DOMAIN m /\ m.mode = b

LEMMA MovesKeepMode ==
    ASSUME NEW m, NEW b, ModeIs(m, b), NEW i
    PROVE  /\ \A code : ModeIs(Fail(m, code), b)
           /\ \A ph : ModeIs(To(m, ph), b)
           /\ ModeIs(CancelPendantMotion(m), b)
           /\ \A motor, path, delta, ph : ModeIs(Issue(m, motor, path, delta, ph), b)
           /\ \A motor : ModeIs(BeginLimitReset(m, motor), b)
           /\ ModeIs(FinishUnacceptedJog(m), b)
           /\ ModeIs(CountTotal(m), b) /\ ModeIs(Observe(m, i), b)
           /\ \A x : ModeIs([m EXCEPT !.pending = x], b)
           /\ \A x : ModeIs([m EXCEPT !.interp = x], b)
           /\ \A x : ModeIs([m EXCEPT !.active = x], b)
BY Zenon DEF ModeIs, Fail, To, CancelPendantMotion, Issue, BeginLimitReset,
       FinishUnacceptedJog, CountTotal, Observe

LEMMA JogsKeepMode ==
    ASSUME NEW m, NEW b, ModeIs(m, b), NEW t, NEW i
    PROVE  /\ ModeIs(StartJog(m, t, i), b) /\ ModeIs(RequestJog(m, t, i), b)
           /\ \A motor : ModeIs(BeginBounce(m, motor), b)
           /\ \A path : ModeIs(StartBounceMove(m, path, i), b)
           /\ ModeIs(StartLimitReleaseJog(m, t, i), b)
           /\ ModeIs(FinishBounce(m, i), b)
<1>1. \A x, k, g : /\ ModeIs([m EXCEPT !.pending = x, !.command = k], b)
                  /\ ModeIs([m EXCEPT !.active = x, !.pending = k], b)
                  /\ ModeIs([m EXCEPT !.command = x, !.active = k, !.pending = g], b)
  BY DEF ModeIs
<1>2. ModeIs(Extend(m, t, i), b)
  BY DEF ModeIs, Extend
<1>3. /\ \A motor, path, delta, ph :
            /\ ModeIs([Issue(m, motor, path, delta, ph) EXCEPT !.pending = None], b)
            /\ ModeIs([Issue(m, motor, path, delta, ph) EXCEPT !.bounceStarted = TRUE], b)
      /\ \A code : ModeIs(Fail(m, code), b)
      /\ \A motor : ModeIs(BeginLimitReset(m, motor), b)
  BY MovesKeepMode DEF ModeIs
<1>4. ModeIs(StartJog(m, t, i), b)
  BY <1>1, <1>3, MovesKeepMode, Zenon DEF StartJog
<1>5. ModeIs(RequestJog(m, t, i), b)
  <2>1. \A x : ModeIs([m EXCEPT !.active = [@ EXCEPT !.delta = t.delta],
                               !.pending = x], b)
    BY DEF ModeIs
  <2>2. ModeIs(To([m EXCEPT !.pending = t, !.command = JogStop],
                  "StoppingReplace"), b)
    BY DEF ModeIs, To
  <2> QED BY <1>2, <1>4, <2>1, <2>2, MovesKeepMode, Zenon DEF RequestJog
<1>6. \A motor : ModeIs(BeginBounce(m, motor), b)
  BY <1>3 DEF BeginBounce, ModeIs, To
<1>7. /\ \A path : ModeIs(StartBounceMove(m, path, i), b)
      /\ ModeIs(StartLimitReleaseJog(m, t, i), b)
  BY <1>3 DEF StartBounceMove, StartLimitReleaseJog
<1>8. ModeIs(FinishBounce(m, i), b)
  <2>1. ModeIs(To([m EXCEPT !.active = None, !.pending = None,
                      !.interp = NewInterpreter], "BounceReleaseWait"), b)
    BY DEF ModeIs, To
  <2> QED BY <1>3, <2>1 DEF FinishBounce
<1> QED BY <1>4, <1>5, <1>6, <1>7, <1>8

LEMMA PhasesKeepMode ==
    ASSUME NEW m, NEW b, ModeIs(m, b), NEW i
    PROVE  /\ ModeIs(AdvanceLatchReset(m, i), b)
           /\ ModeIs(AdvanceReleaseWait(m, i), b)
           /\ ModeIs(StartPending(m, i), b)
           /\ ModeIs(AdvanceStopping(m, i), b)
           /\ ModeIs(AdvanceBounce(m, i), b)
           /\ ModeIs(AdvanceJog(m, i), b)
<1>1. /\ \A code : ModeIs(Fail(m, code), b)
      /\ \A motor : ModeIs(BeginLimitReset(m, motor), b)
  BY MovesKeepMode
<1>2. ASSUME NEW n, ModeIs(n, b) PROVE ModeIs(StartPending(n, i), b)
  <2>1. ModeIs([n EXCEPT !.pending = None], b)
    BY <1>2, MovesKeepMode
  <2> QED BY <1>2, <2>1, JogsKeepMode DEF StartPending
<1>3. ModeIs(AdvanceLatchReset(m, i), b)
  BY <1>1 DEF AdvanceLatchReset, ModeIs, To
<1>4. ModeIs(AdvanceReleaseWait(m, i), b)
  BY <1>1 DEF AdvanceReleaseWait
<1>5. \A ph : /\ ModeIs(To([m EXCEPT !.active = None], ph), b)
             /\ ModeIs(To([m EXCEPT !.active = None, !.pending = None], ph), b)
             /\ ModeIs(To([m EXCEPT !.active = None, !.pending = None,
                               !.interp = NewInterpreter], ph), b)
  BY DEF ModeIs, To
<1>6. \A path : ModeIs(StartBounceMove(m, path, i), b)
  BY JogsKeepMode
<1>7. ModeIs(AdvanceStopping(m, i), b)
  BY <1>1, <1>2, <1>5, <1>6 DEF AdvanceStopping
<1>8. ModeIs(AdvanceBounce(m, i), b)
  <2>1. ModeIs(FinishBounce(m, i), b)
    BY JogsKeepMode
  <2>2. \A code : ModeIs(Fail(FinishBounce(m, i), code), b)
    BY <2>1, MovesKeepMode
  <2> QED BY <1>1, <2>1, <2>2, MovesKeepMode DEF AdvanceBounce
<1>9. ModeIs(AdvanceJog(m, i), b)
  BY <1>1, <1>2, <1>5, MovesKeepMode DEF AdvanceJog
<1> QED BY <1>2, <1>3, <1>4, <1>7, <1>8, <1>9

LEMMA RunMotionKeepsMode ==
    ASSUME NEW m, NEW b, ModeIs(m, b), NEW i
    PROVE  ModeIs(RunMotion(m, i), b) /\ ModeIs(CheckLimits(m, i), b)
<1>1. ASSUME NEW n, ModeIs(n, b) PROVE ModeIs(CheckLimits(n, i), b)
  BY <1>1, MovesKeepMode, JogsKeepMode DEF CheckLimits
<1>2. ModeIs(ManageHomingLatches(m, i), b)
  <2>1. \A x, y : /\ ModeIs([m EXCEPT !.homingWas = x, !.homingElapsed = y], b)
                 /\ ModeIs([m EXCEPT !.limitReset = x, !.homingElapsed = y], b)
                 /\ ModeIs([m EXCEPT !.homingElapsed = x], b)
    BY DEF ModeIs
  <2>2. ModeIs(CancelPendantMotion([m EXCEPT !.homingWas = TRUE,
                                             !.homingElapsed = 0]), b)
    BY <2>1, MovesKeepMode, Zenon
  <2> QED BY <2>1, <2>2, Zenon DEF ManageHomingLatches
<1>3. ASSUME NEW n, ModeIs(n, b) PROVE ModeIs(AdvanceMotion(n, i), b)
  <2>1. ModeIs(CountTotal(n), b)
    BY <1>3, MovesKeepMode
  <2> DEFINE c == CountTotal(n)
             o == Observe(c, i)
  <2>2. ModeIs(o, b)
    BY <2>1, MovesKeepMode
  <2>3. ModeIs(AdvanceActive(c, i), b)
    BY <2>1, <2>2, PhasesKeepMode DEF AdvanceActive
  <2> HIDE DEF c
  <2>4. AdvanceMotion(n, i) \in
           {c, Fail(c, "BounceTimedOut"), AdvanceLatchReset(c, i),
            AdvanceReleaseWait(c, i), AdvanceActive(c, i), StartPending(c, i)}
    BY DEF AdvanceMotion, c
  <2>5. ModeIs(c, b)
    BY <2>1 DEF c
  <2>6. /\ ModeIs(Fail(c, "BounceTimedOut"), b) /\ ModeIs(StartPending(c, i), b)
        /\ ModeIs(AdvanceLatchReset(c, i), b) /\ ModeIs(AdvanceReleaseWait(c, i), b)
    BY <2>5, PhasesKeepMode, MovesKeepMode
  <2> QED BY <2>3, <2>4, <2>5, <2>6
<1>4. ASSUME NEW n, ModeIs(n, b) PROVE ModeIs(DrainPending(n, i), b)
  <2>1. ModeIs([n EXCEPT !.pending = None], b)
    BY <1>4, MovesKeepMode
  <2> QED BY <1>4, <2>1, JogsKeepMode DEF DrainPending
<1>5. ASSUME NEW n, ModeIs(n, b) PROVE ModeIs(OnPacket(n, i), b)
  <2> DEFINE k == [n EXCEPT !.interp = Interpreted(@, i.packet)]
  <2>1. ModeIs(k, b)
    BY <1>5 DEF ModeIs
  <2> HIDE DEF k
  <2>2. /\ ModeIs(CancelPendantMotion(k), b) /\ \A code : ModeIs(Fail(k, code), b)
        /\ ModeIs(StartLimitReleaseJog(k, IntentOf(i.packet), i), b)
        /\ ModeIs(RequestJog(k, IntentOf(i.packet), i), b)
    BY <2>1, MovesKeepMode, JogsKeepMode
  <2>3. ModeIs(OnLimitReleasePacket(n, i), b) /\ ModeIs(OnJogPacket(n, i), b)
    BY <2>1, <2>2 DEF OnLimitReleasePacket, OnJogPacket, k
  <2> QED BY <1>5, <2>3 DEF OnPacket
<1>6. ModeIs(RunMotion(m, i), b)
  <2> DEFINE c == CheckLimits(ManageHomingLatches(m, i), i)
             v == IF c.fault # None THEN c ELSE DrainPending(AdvanceMotion(c, i), i)
  <2>1. ModeIs(c, b)
    BY <1>1, <1>2
  <2>2. ModeIs(DrainPending(AdvanceMotion(c, i), i), b)
    BY <2>1, <1>3, <1>4
  <2> HIDE DEF c
  <2>3. ModeIs(v, b)
    BY <2>1, <2>2
  <2>4. RunMotion(m, i) = IF v.fault # None THEN v ELSE OnPacket(v, i)
    BY DEF RunMotion, c
  <2> HIDE DEF v
  <2> QED BY <1>5, <2>3, <2>4
<1> QED BY <1>1, <1>6

(* An increment leaves update() only from the jog branch, once the startup  *)
(* has been decided, with the mode of the input it was given.               *)
Arms(i) ==
    motion'.command \in Increment =>
        /\ ~startup' /\ motion'.phase \notin StartupPhases
        /\ motion'.mode = i.mode

LEMMA BeginCycleMode ==
    ASSUME NEW m \in Motion, NEW i
    PROVE  ModeIs(BeginCycle(m, i), i.mode)
<1> DEFINE e == Elapse(m.phaseElapsed)
           k == IF m.phase \in ClockedPhases
                THEN [m EXCEPT !.phaseElapsed = e] ELSE m
           c == [k EXCEPT !.command = None]
           d == [c EXCEPT !.mode = i.mode, !.interp = NewInterpreter,
                          !.pending = None]
<1>1. ModeIs(m, m.mode)
  BY DEF ModeIs, Motion
<1> HIDE DEF e
<1>2. ModeIs(c, m.mode)
  BY <1>1 DEF ModeIs
<1>3. BeginCycle(m, i) = IF c.mode = i.mode THEN c
                         ELSE IF i.mode THEN d ELSE CancelPendantMotion(d)
  BY DEF BeginCycle, SetPendantMode, e
<1>4. ModeIs(d, i.mode)
  <2> HIDE DEF c
  <2> QED BY <1>2 DEF ModeIs
<1> HIDE DEF c, d
<1>5. ModeIs(CancelPendantMotion(d), i.mode)
  BY <1>4, MovesKeepMode
<1> QED BY <1>2, <1>3, <1>4, <1>5 DEF ModeIs

LEMMA AdvanceRecoverySilent ==
    ASSUME NEW r, NEW p, NEW m, m \in Motion, m.fault = None,
           m.command \notin Increment,
           NEW i \in Input, AdvanceRecovery(r, p, m, i)
    PROVE  motion'.command \notin Increment
<1>1. ASSUME NEW code \in Faults PROVE Fail(m, code).command = JogStopImmediate
  BY FailFields
<1>2. /\ "LimitDuringRecovery" \in Faults
      /\ "LimitLatchResetTimedOut" \in Faults
  BY DEF Faults
<1>3. motion' \in {m, [m EXCEPT !.limitReset = {}],
                   [m EXCEPT !.interp = NewInterpreter],
                   Fail(m, "LimitDuringRecovery"),
                   Fail(m, "LimitLatchResetTimedOut")}
  BY DEF AdvanceRecovery, AdvanceLimitReset, AdvanceRequests, SettleFault,
         Recovered, Settle
<1>4. /\ [m EXCEPT !.limitReset = {}].command = m.command
      /\ [m EXCEPT !.interp = NewInterpreter].command = m.command
  BY DEF Motion
<1> QED BY <1>1, <1>2, <1>3, <1>4, NotIncrements

LEMMA ResetMotionSilent ==
    ASSUME NEW m \in Motion, m.fault = None, m.command \notin Increment,
           NEW i \in Input
    PROVE  ResetMotion(m, i).command \notin Increment
<1> DEFINE c == [m EXCEPT !.interp = NewInterpreter,
                          !.collision = SingleOf(i.raw)]
           ph == IF c.collision # None THEN "BounceReleaseWait" ELSE "Idle"
           t == To(c, ph)
<1>1. c \in Motion /\ c.command = m.command /\ c.fault = None
  BY SingleType, InterpreterFacts, ZenonT(30) DEF Input, Motion
<1>2. Fail(c, "LimitDuringRecovery").command = JogStopImmediate
  <2> HIDE DEF c
  <2>1. "LimitDuringRecovery" \in Faults
    BY DEF Faults
  <2> QED BY <1>1, <2>1, FailFields
<1>3. ResetMotion(m, i) \in {Fail(c, "LimitDuringRecovery"), t,
                             [t EXCEPT !.limitReset = Stale(i)]}
  BY DEF ResetMotion
<1> HIDE DEF c
<1>4. ph \in Phases
  BY PhaseFacts
<1> HIDE DEF ph
<1>5. t \in Motion /\ t.command = m.command
  BY <1>1, <1>4, ToType
<1> HIDE DEF t
<1>6. [t EXCEPT !.limitReset = Stale(i)].command = m.command
  BY <1>5 DEF Motion
<1> QED BY <1>2, <1>3, <1>5, <1>6, NotIncrements

(* Only the jog branch and the end of the startup backoff issue one.        *)
LEMMA OperateArms ==
    ASSUME NEW m, PowerInv(startup, recovery, power, m),
           JogInv(startup, recovery, power, m), m.command \notin Increment,
           NEW i \in Input, ModeIs(m, i.mode), Operate(m, i)
    PROVE  Arms(i)
<1> DEFINE s == StartupMotion(m, i)
           p == Opened(StartupPower)
<1>1. /\ MotionInv(m) /\ m \in Motion /\ m.fault = None /\ startup' = FALSE
      /\ Shape(m) /\ Latched(m)
  BY MotionInvFacts DEF PowerInv, JogInv, Operate, Running, Operable
<1>2. startup => m.phase = "Idle" /\ m.active = None /\ m.limitReset = {}
  BY DEF JogInv
<1>3. MotionInv(s)
  <2>1. startup => m.active = None /\ m.phase \notin StartupPhases
    BY DEF PowerInv
  <2> QED BY <1>1, <2>1, StartupMotionFacts
<1>4. Shape(s) /\ Latched(s) /\ s.command \notin Increment
  BY <1>1, <1>2, StartupMotionJogs
<1>5. ModeIs(s, i.mode)
  <2>1. \A x, ph :
           ModeIs(To([m EXCEPT !.active = None, !.pending = None,
                        !.bounceStarted = FALSE, !.collision = x], ph), i.mode)
    BY DEF ModeIs, To
  <2> QED BY <2>1, MovesKeepMode, Zenon DEF StartupMotion
<1> HIDE DEF p
<1>6. ASSUME NEW code \in Faults, s.fault = None
      PROVE  Fail(s, code).command \notin Increment
  <2>1. s \in Motion
    BY <1>3, MotionInvFacts
  <2> HIDE DEF s
  <2> QED BY <1>6, <2>1, FailFields, NotIncrements
<1>7. ASSUME NEW n, n.command \notin Increment, motion' = n PROVE Arms(i)
  BY <1>7 DEF Arms
<1>8. ASSUME s.fault = None, NEW ph \in Phases
      PROVE  /\ To(s, ph).command \notin Increment
             /\ [To(s, ph) EXCEPT !.interp = NewInterpreter].command \notin Increment
  <2>1. s \in Motion
    BY <1>3, MotionInvFacts
  <2> HIDE DEF s
  <2>2. To(s, ph) \in Motion /\ To(s, ph).command = s.command
    BY <2>1, <1>8, ToType
  <2> QED BY <1>4, <2>2 DEF Motion
<1>9. CASE s.fault # None /\ Settle(recovery, power, s)
  BY <1>4, <1>9 DEF Settle, Arms
<1>10. CASE /\ s.fault = None /\ s.phase \in StartupPowerPhases
            /\ AdvanceStartupPower(p, s, i)
  <2>1. {"Idle", "StartupReadyWaitReset", "StartupReadyWaitOn"} \subseteq Phases
    BY PhaseFacts, StartupPhaseFacts
  <2>2. {"LimitDuringStartupReset", "HomingDuringStartupReset"} \subseteq Faults
    BY DEF Faults
  <2>3. motion' \in {s, Fail(s, "LimitDuringStartupReset"),
                     Fail(s, "HomingDuringStartupReset"),
                     To(s, "StartupReadyWaitReset"), To(s, "StartupReadyWaitOn"),
                     [To(s, "Idle") EXCEPT !.interp = NewInterpreter]}
    BY <1>10 DEF AdvanceStartupPower, SettleStartup, Settle, AskReset,
                 AskMachineOn, FinishStartupPower
  <2> HIDE DEF s
  <2> QED BY <1>4, <1>6, <1>8, <1>10, <2>1, <2>2, <2>3 DEF Arms
<1>11. CASE /\ s.fault = None /\ s.phase \in StartupBouncePhases
            /\ IF CheckLimits(s, i).fault # None
               THEN Settle(recovery, p, CheckLimits(s, i))
               ELSE AdvanceStartupBounce(p, CheckLimits(s, i), i)
  <2> DEFINE f == Fail(s, "BounceLostLimitAttribution")
  <2>1. "BounceLostLimitAttribution" \in Faults
    BY DEF Faults
  <2>2. CheckLimits(s, i) \in {s, f}
    BY <1>11 DEF CheckLimits, BouncePhases
  <2>3. f.fault # None
    <3>1. s \in Motion
      BY <1>3, MotionInvFacts
    <3> HIDE DEF s
    <3> QED BY <1>11, <2>1, <3>1, FailFields
  <2>4. CASE motion' = f
    BY <1>6, <1>11, <2>1, <2>4 DEF Arms
  <2>5. CASE AdvanceStartupBounce(p, s, i)
    <3>1. \/ motion' \in {s, f, To(s, "StartupWaitReset"), To(s, "StartupWaitOn")}
          \/ /\ i.path # None /\ motion' = StartBounceMove(s, i.path, i)
      BY <2>5 DEF AdvanceStartupBounce, SettleStartup, Settle, AskReset,
                  AskMachineOn
    <3>2. {"StartupWaitReset", "StartupWaitOn"} \subseteq Phases
      BY PhaseFacts, StartupPhaseFacts
    <3>3. CASE motion' \in {s, f, To(s, "StartupWaitReset"), To(s, "StartupWaitOn")}
      <4> HIDE DEF s
      <4> QED BY <1>4, <1>6, <1>8, <1>11, <2>1, <3>2, <3>3 DEF Arms, f
    <3>4. CASE i.path # None /\ motion' = StartBounceMove(s, i.path, i)
      <4> DEFINE n == StartBounceMove(s, i.path, i)
      <4>1. ModeIs(n, i.mode)
        BY <1>5, JogsKeepMode
      <4>2. i.path \in Paths /\ s.active = None /\ s \in Motion
        BY <1>3, <1>11, <3>4, MotionInvFacts DEF Input, StartupPhases, Starting
      <4>3. n = s \/ Follows(s, n, i)
        <5>1. s.phase \in BouncePhases /\ s.phase # "BounceResetAssert"
          BY <1>11, PhaseSets DEF StartupBouncePhases
        <5> HIDE DEF s
        <5> QED BY <1>4, <1>11, <4>2, <5>1, StartBounceMoveFollows
      <4> HIDE DEF n, s
      <4>4. CASE n = s
        BY <1>4, <3>4, <4>4 DEF Arms, n
      <4>5. CASE Follows(s, n, i)
        <5>1. n.phase \notin StartupPhases
          BY <4>5, SafeMotion DEF Follows, Fine
        <5> QED BY <1>1, <3>4, <4>1, <5>1 DEF Arms, ModeIs, n
      <4> QED BY <4>3, <4>4, <4>5
    <3> QED BY <3>1, <3>3, <3>4
  <2> QED BY <1>11, <2>2, <2>3, <2>4, <2>5 DEF Settle
<1>12. CASE /\ s.fault = None /\ s.phase \notin StartupPhases
            /\ Settle(recovery, p, RunMotion(s, i))
  <2>1. motion' = RunMotion(s, i)
    BY <1>12 DEF Settle
  <2>2. Live(s)
    BY <1>3, <1>12, MotionInvFacts
  <2> HIDE DEF s
  <2>3. motion'.phase \notin StartupPhases
    BY <2>1, <2>2, RunMotionSafe, SafeMotion
  <2>4. motion'.mode = i.mode
    BY <1>5, <2>1, RunMotionKeepsMode DEF ModeIs
  <2> QED BY <1>1, <2>3, <2>4 DEF Arms
<1> QED
  BY <1>9, <1>10, <1>11, <1>12 DEF Operate, StartupPhases, p

LEMMA UpdateArms ==
    ASSUME MotionIInv, NEW i \in Input, Update(i)
    PROVE  Arms(i)
<1> DEFINE m == BeginCycle(motion, i)
<1>1. PowerInv(startup, recovery, power, motion) /\ motion \in Motion
  BY MotionInvFacts DEF MotionIInv, IInv, PowerInv
<1>2. PowerInv(startup, recovery, power, m)
  BY <1>1, BeginCycleKeeps
<1>3. JogInv(startup, recovery, power, m) /\ m.command \notin Increment
  BY <1>1, BeginCycleJogs DEF MotionIInv
<1>4. ModeIs(m, i.mode)
  BY <1>1, BeginCycleMode
<1>5. \/ HeldByFault(m) \/ AwaitLink(m) \/ HoldEstop(m, i)
      \/ AcceptAxisReset(m, i) \/ PowerStep(m, i) \/ FollowGesture(m, i)
      \/ LinkFault(m, i) \/ Operate(m, i)
  BY DEF Update
<1> HIDE DEF m
<1>6. m \in Motion
  BY <1>2, MotionInvFacts DEF PowerInv
<1>7. CASE HeldByFault(m) \/ AwaitLink(m)
  BY <1>3, <1>7 DEF HeldByFault, AwaitLink, Arms
<1>8. CASE HoldEstop(m, i)
  BY <1>3, <1>6, <1>8, EngagedFacts, NotIncrements DEF HoldEstop, Arms
<1>9. CASE AcceptAxisReset(m, i)
  <2> DEFINE n == ResetMotion(m, i)
  <2>1. m.fault = None
    BY <1>9 DEF AcceptAxisReset, Operable
  <2>2. n.command \notin Increment /\ n \in Motion
    BY <1>3, <1>6, <2>1, ResetMotionSilent, ResetMotionSafe DEF Safe
  <2>3. \/ motion' = n
        \/ /\ n.fault = None
           /\ AdvanceRecovery(InactiveRecovery, ResetPower(power, i), n, i)
    BY <1>9 DEF AcceptAxisReset, BeginLinuxcncEstopReset, Settle
  <2> HIDE DEF n
  <2> QED BY <2>2, <2>3, AdvanceRecoverySilent DEF Arms
<1>10. CASE PowerStep(m, i)
  <2>1. m.fault = None
    BY <1>10 DEF PowerStep, Operable
  <2>2. \/ motion' = ResetMotion(m, i) \/ motion' = m
        \/ AdvanceRecovery(recovery, power, m, i)
    BY <1>10 DEF PowerStep, BeginLinuxcncEstopReset, Settle
  <2> QED BY <1>3, <1>6, <2>1, <2>2, ResetMotionSilent, AdvanceRecoverySilent
          DEF Arms
<1>11. CASE FollowGesture(m, i)
  BY <1>3, <1>11 DEF FollowGesture, Settle, Arms
<1>12. CASE LinkFault(m, i)
  <2>1. ASSUME NEW code \in Faults
        PROVE  Fail(m, code).command = JogStopImmediate
    BY <1>6, <1>12, FailFields DEF LinkFault, Running, Operable
  <2> QED BY <1>12, <2>1, NotIncrements
          DEF LinkFault, SettleFault, Settle, Faults, Arms
<1>13. CASE Operate(m, i)
  BY <1>2, <1>3, <1>4, <1>13, OperateArms
<1> QED BY <1>5, <1>7, <1>8, <1>9, <1>10, <1>11, <1>12, <1>13
-----------------------------------------------------------------------------
(* An increment that stands has been issued by a supervisor that ran, with  *)
(* the startup behind it, so that only a fault can keep it from running in  *)
(* the next cycle; and it was either the backoff's or asked of a live task. *)

Issued ==
    motion.command \in Increment =>
        /\ mesa.phase = "Ready" /\ guard.phase = "Ready" /\ guard.committed
        /\ motion.phase # "Bouncing" => IsFresh(task)

RuntimeJogInv ==
    RuntimeInv /\ JogInv(startup, recovery, power, motion) /\ Issued

(* A guard that stops being ready after the commit has faulted.             *)
LEMMA ReadyGuards ==
    ASSUME NEW g, NEW s, NEW h, NEW e, NEW w, NEW ok, NEW p
    PROVE  /\ g \in Mesa /\ g.phase = "Ready" =>
                  MesaUpdated(g, s, h, e).phase \in {"Ready", "Fault"}
           /\ w \in Watchdog /\ w.phase = "Ready" /\ w.committed =>
                  WatchdogUpdated(w, ok, p).phase \in {"Ready", "Fault"}
<1>1. ASSUME g \in Mesa, g.phase = "Ready"
      PROVE  MesaUpdated(g, s, h, e).phase \in {"Ready", "Fault"}
  <2> DEFINE c == [g EXCEPT !.clear = FALSE]
  <2>1. c \in Mesa /\ c.phase = "Ready"
    BY <1>1 DEF Mesa
  <2>2. MesaUpdated(g, s, h, e) \in {c, MesaTo(c, "Fault", FALSE)}
    BY <2>1 DEF MesaUpdated
  <2> HIDE DEF c
  <2>3. MesaTo(c, "Fault", FALSE).phase = "Fault"
    BY <2>1 DEF MesaTo, Mesa
  <2> QED BY <2>1, <2>2, <2>3
<1>2. ASSUME w \in Watchdog, w.phase = "Ready", w.committed
      PROVE  WatchdogUpdated(w, ok, p).phase \in {"Ready", "Fault"}
  BY <1>2 DEF WatchdogUpdated, ReadyWatchdog, WatchdogTo, Watchdog
<1> QED BY <1>1, <1>2

(* fail() and update() in one cycle: no jog and no command is left.         *)
LEMMA FaultedUpdateJogs ==
    ASSUME IInv, JogInv(startup, recovery, power, motion), motion.fault = None,
           NEW code \in Faults, NEW i \in Input, FaultedUpdate(code, i)
    PROVE  /\ JogInv(startup', recovery', power', motion')
           /\ motion'.command \notin Increment
<1> DEFINE m == Fail(motion, code)
           p == Dropped(power)
           n == BeginCycle(m, i)
<1>1. /\ MotionInv(motion) /\ motion \in Motion /\ power \in Power
      /\ startup \in BOOLEAN /\ GestureInv(recovery)
  BY MotionInvFacts DEF IInv, PowerInv
<1>2. m.fault # None /\ Faulted(m) /\ m.command \notin Increment
  <2>1. m.fault # None /\ m.command = JogStopImmediate
    BY <1>1, FailFields
  <2>2. Faulted(m)
    BY <1>1, <2>1, FailSafe DEF Faulted, Safe
  <2> HIDE DEF m
  <2> QED BY <2>1, <2>2, NotIncrements
<1>3. PowerInv(startup, recovery, p, m)
  BY <1>1, <1>2, FaultKeeps
<1>4. JogInv(startup, recovery, p, m)
  BY <1>1, <1>2, FaultedJogs DEF Faulted
<1> HIDE DEF m
<1>5. p \in Power
  BY <1>3 DEF PowerInv
<1> HIDE DEF p
<1>6. JogInv(startup, recovery, p, n) /\ n.command \notin Increment
  BY <1>3, <1>4, BeginCycleJogs
<1> HIDE DEF n
<1>7. JogInv(startup, recovery, Closed(p), n)
  BY <1>5, <1>6, ClosedJogs
<1>8. /\ motion' = n /\ power' = Closed(p)
      /\ UNCHANGED <<startup, recovery>>
  BY DEF FaultedUpdate, m, n, p
<1> QED BY <1>6, <1>7, <1>8

LEMMA OrdinaryIssues ==
    ASSUME RuntimeJogInv, NEW f \in Frame, Ordinary(f)
    PROVE  RuntimeJogInv'
<1> DEFINE m == MesaUpdated(mesa, f.servoReady, f.hasBit, f.ioError)
           b == m.phase = "Ready" /\ f.uiReady /\ TaskValid(f) /\ PendantValid(f)
           w == WatchdogUpdated(guard, f.watchdogOk, b)
           i == SupervisorInput(f)
           fault == GuardFault(f, m, w)
           running == m.phase = "Ready" /\ w.phase = "Ready"
<1>0. RuntimeTypes /\ IInv /\ MotionIInv /\ RuntimeInv
  BY DEF RuntimeJogInv, RuntimeInv, MotionIInv
<1>1. RuntimeInv'
  BY <1>0, OrdinaryKeeps
<1>2. i \in Input /\ i.mode = Armed(f, f.hal.mode)
  BY <1>0, InputType
<1>3. /\ fault \in RuntimeFaults \cup {None}
      /\ fault # None => motion.fault = None
      /\ motion.fault = None /\ (m.phase = "Fault" \/ w.phase = "Fault") =>
             fault # None
  BY GuardFaultFacts
<1>4. fault # None => fault \in Faults
  BY <1>3 DEF RuntimeFaults, Faults
<1>5. /\ mesa.phase = "Ready" => m.phase \in {"Ready", "Fault"}
      /\ guard.phase = "Ready" /\ guard.committed =>
             w.phase \in {"Ready", "Fault"}
  <2> HIDE DEF b
  <2> QED BY <1>0, ReadyGuards DEF RuntimeTypes
<1>6. w \in Watchdog
  <2>1. b \in BOOLEAN /\ f.watchdogOk \in BOOLEAN /\ guard \in Watchdog
    BY <1>0 DEF RuntimeTypes, Frame
  <2> HIDE DEF b
  <2> QED BY <2>1, WatchdogType
<1>7. /\ \/ running /\ fault = None /\ Update(i)
         \/ running /\ fault # None /\ FaultedUpdate(fault, i)
         \/ ~running /\ fault # None /\ RuntimeFault(fault)
         \/ ~running /\ fault = None /\ UNCHANGED vars
      /\ guard' = IF running /\ StartupComplete
                  THEN [w EXCEPT !.committed = TRUE] ELSE w
      /\ mesa' = m /\ task' = TaskSeen(f)
  BY DEF Ordinary, Supervise, Sampled
<1> HIDE DEF m, w, i, fault
<1>8. CASE running /\ fault = None /\ Update(i)
  <2>1. JogInv(startup', recovery', power', motion')
    BY <1>0, <1>2, <1>8, UpdateJogs DEF Jogs
  <2>2. Arms(i)
    BY <1>0, <1>2, <1>8, UpdateArms
  <2>3. ASSUME motion'.command \in Increment PROVE Issued'
    <3>1. StartupComplete /\ motion'.mode = i.mode
      BY <2>2, <2>3 DEF Arms, StartupComplete, StartupPhases
    <3>2. guard'.phase = "Ready" /\ guard'.committed /\ mesa'.phase = "Ready"
      BY <1>6, <1>7, <1>8, <3>1 DEF Watchdog
    <3>3. motion'.mode \/ motion'.phase = "Bouncing"
      BY <2>1, <2>3 DEF JogInv, Shape
    <3>4. motion'.mode => IsFresh(TaskSeen(f))
      BY <1>2, <3>1 DEF Armed, TaskValid
    <3> QED BY <1>7, <3>2, <3>3, <3>4 DEF Issued
  <2> QED BY <1>1, <2>1, <2>3 DEF RuntimeJogInv, Issued
<1>9. CASE running /\ fault # None /\ FaultedUpdate(fault, i)
  <2>1. /\ JogInv(startup', recovery', power', motion')
        /\ motion'.command \notin Increment
    BY <1>0, <1>2, <1>3, <1>4, <1>9, FaultedUpdateJogs DEF MotionIInv
  <2> QED BY <1>1, <2>1 DEF RuntimeJogInv, Issued
<1>10. CASE ~running /\ fault # None /\ RuntimeFault(fault)
  <2>1. Called(motion) /\ motion'.command = JogStopImmediate
    BY <1>0, <1>3, <1>10, RuntimeFaultJogs
  <2> QED BY <1>1, <2>1, NotIncrements DEF RuntimeJogInv, Issued, Called
<1>11. CASE ~running /\ fault = None /\ UNCHANGED vars
  <2>1. motion' = motion /\ JogInv(startup', recovery', power', motion')
    BY <1>0, <1>11 DEF vars, MotionIInv
  <2>2. motion.command \notin Increment
    <3> SUFFICES ASSUME motion.command \in Increment PROVE FALSE
      OBVIOUS
    <3>1. motion.fault = None
      BY <1>0 DEF MotionIInv, JogInv, Shape
    <3>2. /\ mesa.phase = "Ready" /\ guard.phase = "Ready" /\ guard.committed
      BY DEF RuntimeJogInv, Issued
    <3> QED BY <1>3, <1>5, <1>11, <3>1, <3>2
  <2> QED BY <1>1, <2>1, <2>2 DEF RuntimeJogInv, Issued
<1> QED BY <1>7, <1>8, <1>9, <1>10, <1>11

LEMMA UpdateIssues ==
    ASSUME RuntimeJogInv, NEW f \in Frame, RuntimeUpdate(f)
    PROVE  RuntimeJogInv'
<1>0. RuntimeTypes /\ MotionIInv /\ RuntimeInv
  BY DEF RuntimeJogInv, RuntimeInv, MotionIInv
<1>1. CASE ClearFault(f)
  <2>1. ClearLatchedFault
    BY <1>1 DEF ClearFault
  <2>2. Called(motion) /\ motion'.command = JogStopImmediate
    BY <1>0, <2>1, ClearLatchedFaultJogs
  <2> QED BY <1>0, <1>1, <2>2, ClearFaultKeeps, NotIncrements
          DEF RuntimeJogInv, Issued, Called
<1>2. CASE ClearByReset(f)
  <2>1. ClearLatchedFault \/ ClearAndReset(SupervisorInput(f))
    BY <1>2 DEF ClearByReset, MayReset
  <2>2. Called(motion) /\ motion'.command = JogStopImmediate
    BY <1>0, <2>1, InputType, ClearLatchedFaultJogs, ClearAndResetJogs
  <2> QED BY <1>0, <1>2, <2>2, ClearByResetKeeps, NotIncrements
          DEF RuntimeJogInv, Issued, Called
<1>3. CASE Ordinary(f)
  BY <1>3, OrdinaryIssues
<1> QED BY <1>1, <1>2, <1>3 DEF RuntimeUpdate

(* A contact retires no increment that the channel has been given, and a    *)
(* phase it leaves is none of the backoff's.                                *)
LEMMA ReportsIssue ==
    ASSUME RuntimeJogInv, ReportProbeStop \/ ReportChannelError \/
                          UNCHANGED <<vars, runtime>>
    PROVE  RuntimeJogInv'
<1>0. MotionIInv /\ RuntimeInv /\ motion \in Motion
  BY MotionInvFacts DEF RuntimeJogInv, RuntimeInv, MotionIInv, IInv, PowerInv
<1>1. RuntimeInv'
  BY <1>0, ReportsKeep
<1>2. UNCHANGED <<mesa, guard, task>>
  BY DEF ReportProbeStop, ReportChannelError, runtime
<1>3. CASE ReportProbeStop
  <2>1. ObserveManualProbeStop
    BY <1>3 DEF ReportProbeStop
  <2>2. JogInv(startup', recovery', power', motion')
    BY <1>0, <2>1, RetireJogs DEF Called
  <2>3. /\ motion'.command = motion.command
        /\ motion.phase = "Bouncing" => motion'.phase = "Bouncing"
    BY <1>0, <2>1 DEF ObserveManualProbeStop, RetireProbedJog, To, Motion
  <2> QED BY <1>1, <1>2, <2>2, <2>3 DEF RuntimeJogInv, Issued
<1>4. CASE ReportChannelError
  <2>1. /\ "MotionCommandEncodingFailure" \in RuntimeFaults
        /\ RuntimeFault("MotionCommandEncodingFailure")
    BY <1>4 DEF ReportChannelError, RuntimeFaults
  <2>2. Called(motion) /\ motion'.command = JogStopImmediate
    BY <1>0, <2>1, RuntimeFaultJogs
  <2> QED BY <1>1, <2>2, NotIncrements DEF RuntimeJogInv, Issued, Called
<1>5. CASE UNCHANGED <<vars, runtime>>
  BY <1>1, <1>2, <1>5 DEF RuntimeJogInv, Issued, vars
<1> QED BY <1>3, <1>4, <1>5

LEMMA InitRuntimeJogInv == RuntimeInit => RuntimeJogInv
<1> SUFFICES ASSUME RuntimeInit PROVE RuntimeJogInv
  OBVIOUS
<1>1. RuntimeInv /\ MotionIInv
  BY InitRuntimeInv, InitMotionIInv DEF RuntimeInit
<1>2. motion.command \notin Increment
  BY NotIncrements DEF RuntimeInit, Init, InitMotion
<1> QED BY <1>1, <1>2 DEF RuntimeJogInv, MotionIInv, Issued

LEMMA RuntimeJogInvariance == RuntimeSpec => []RuntimeJogInv
<1>1. RuntimeJogInv /\ [RuntimeNext]_<<vars, runtime>> => RuntimeJogInv'
  <2> SUFFICES ASSUME RuntimeJogInv, [RuntimeNext]_<<vars, runtime>>
               PROVE  RuntimeJogInv'
    OBVIOUS
  <2>1. Frames \subseteq Frame
    BY RuntimeAssumption
  <2> QED BY <2>1, UpdateIssues, ReportsIssue DEF RuntimeNext
<1> QED BY <1>1, InitRuntimeJogInv, PTL DEF RuntimeSpec
-----------------------------------------------------------------------------
(* runtime.rs: every field of the runtime and of its supervisor stays in    *)
(* range, the request generations that wrap included.                       *)
THEOREM RuntimeTypeCorrect == RuntimeSpec => []RuntimeTypeOK
<1>1. RuntimeInv => RuntimeTypeOK
  BY MotionInvFacts DEF RuntimeInv, RuntimeTypes, RuntimeTypeOK, IInv, PowerInv, TypeOK,
                        GestureInv
<1> QED BY <1>1, RuntimeInvariance, PTL

(* clear_fault_state(): a faulted guard always shows as a held fault.       *)
THEOREM GuardFaultsHeld == RuntimeSpec => []GuardFaultsAreHeld
<1>1. RuntimeInv => GuardFaultsAreHeld
  BY DEF RuntimeInv
<1> QED BY <1>1, RuntimeInvariance, PTL

(* runtime.rs, update.rs: with both guards ready a press that was read      *)
(* keeps the gate closed through every clear, reset and acknowledgement.    *)
THEOREM PressObeyed == RuntimeSpec => []PressIsObeyed
<1>1. RuntimeInv => PressIsObeyed
  BY DEF RuntimeInv
<1> QED BY <1>1, RuntimeInvariance, PTL

(* What is shown above of the supervisor alone holds inside                 *)
(* the runtime too, where fail() and update() may share a cycle.            *)
THEOREM SupervisorKept ==
    RuntimeSpec => [](FaultedIsInert /\ GateMeansRecovered /\ RequestsHaveAnOwner)
<1>1. IInv => FaultedIsInert
  <2> SUFFICES ASSUME IInv, motion.fault # None PROVE FaultedIsInert
    BY DEF FaultedIsInert
  <2>1. Faulted(motion)
    BY MotionInvFacts DEF IInv, PowerInv
  <2> QED
    BY <2>1 DEF FaultedIsInert, Faulted, Inert, IInv, PowerInv, OutputInv
<1>2. IInv => GateMeansRecovered /\ RequestsHaveAnOwner
  BY DEF IInv, PowerInv, StepInv, OutputInv, GateMeansRecovered, RecoveryActive,
         AskingSteps, RequestsHaveAnOwner
<1>3. RuntimeInv => IInv
  BY DEF RuntimeInv
<1> QED BY <1>1, <1>2, <1>3, RuntimeInvariance, PTL

(* runtime.rs outputs(), cycle.rs: an increment is published only in the    *)
(* cycle it is issued in: the supervisor that issued it runs in every cycle *)
(* until it has taken it back, or a fault has.                              *)
THEOREM CommandsOfThisCycle == RuntimeSpec => []CommandsAreOfThisCycle
<1>1. RuntimeJogInv => CommandsAreOfThisCycle
  BY DEF RuntimeJogInv, Issued, CommandsAreOfThisCycle
<1> QED BY <1>1, RuntimeJogInvariance, PTL

(* runtime.rs: without a live task heartbeat no pendant increment is        *)
(* issued, whatever the mode switch and the detents say.                    *)
THEOREM StaleTaskStartsNone == RuntimeSpec => []StaleTaskStartsNoJog
<1>1. RuntimeJogInv => StaleTaskStartsNoJog
  BY DEF RuntimeJogInv, Issued, StaleTaskStartsNoJog
<1> QED BY <1>1, RuntimeJogInvariance, PTL

(* What is shown above of the jogs of the supervisor alone:                 *)
(* the owner of a latch reset, the jog and the limit a phase waits for, the *)
(* direction of a release and the arming of an increment, inside the        *)
(* runtime.                                                                 *)
THEOREM JogsKept ==
    RuntimeSpec => [](/\ LatchResetHasAnOwner /\ PhasesKeepTheirSubject
                      /\ OnlyAwayFromTheLimit /\ IncrementsNeedArming)
<1>1. RuntimeJogInv => MotionIInv
  BY DEF RuntimeJogInv, RuntimeInv, MotionIInv
<1>2. MotionIInv => /\ LatchResetHasAnOwner /\ PhasesKeepTheirSubject
                    /\ OnlyAwayFromTheLimit /\ IncrementsNeedArming
  BY MotionShows
<1> QED BY <1>1, <1>2, RuntimeJogInvariance, PTL
-----------------------------------------------------------------------------
ServoInv ==
    RuntimeInv /\ channel \in Channel /\ refused \in BOOLEAN /\ probed \in BOOLEAN
-----------------------------------------------------------------------------
(* The channel                                                              *)

LEMMA CountFacts ==
    /\ 0 \in Counts /\ Counts \subseteq Int /\ AtZero \in [Wheels -> Counts]
    /\ Budget \in Nat \ {0} /\ NewChannel \in Channel
<1>1. 0 \in Counts /\ Counts \subseteq Int /\ Budget \in Nat \ {0}
  BY ChannelAssumption DEF Counts
<1>2. AtZero \in [Wheels -> Counts]
  BY <1>1 DEF AtZero
<1> QED BY <1>1, <1>2 DEF NewChannel, Channel

LEMMA WithheldType ==
    ASSUME NEW c \in Channel
    PROVE  Withheld(c) \in Channel /\ ClearTransient(c) \in Channel
BY DEF Withheld, ClearTransient, Channel

LEMMA CancelType ==
    ASSUME NEW c \in Channel
    PROVE  /\ CancelIncrement(c) \in Channel
           /\ [CancelIncrement(c) EXCEPT !.phase = "Stop"] \in Channel
           /\ ForceStopImmediate(c) \in Channel
BY DEF CancelIncrement, ForceStopImmediate, Withheld, Channel

LEMMA ChunkFacts ==
    ASSUME NEW a \in Scheduled
    PROVE  /\ ChunkOf(a) \in Nat \ {0} /\ ChunkOf(a) <= a.remaining
           /\ a.remaining \in Nat \ {0}
           /\ a.remaining - ChunkOf(a) \in Nat
BY CountFacts DEF ChunkOf, Scheduled

(* Without an overrun a chunk leaves a channel.                             *)
LEMMA PublishType ==
    ASSUME NEW c \in Channel, c.active # None, ~Overruns(c)
    PROVE  PublishNextChunk(c) \in Channel
<1> DEFINE a == c.active
           last == ChunkOf(a) >= a.remaining
           counts == [c.counts EXCEPT ![a.wheel] = @ + a.direction]
           rest == IF last THEN None ELSE [a EXCEPT !.remaining = @ - ChunkOf(a)]
<1>1. a \in Scheduled /\ c.counts \in [Wheels -> Counts] /\ a.wheel \in Wheels
  BY DEF Channel, Scheduled
<1>2. counts \in [Wheels -> Counts]
  BY <1>1 DEF Overruns
<1>3. rest \in Scheduled \cup {None}
  BY <1>1, ChunkFacts DEF Scheduled
<1>4. ChunkOf(a) \in Nat /\ (c.rebase \/ last) \in BOOLEAN
  BY <1>1, ChunkFacts DEF Channel
<1>5. PublishNextChunk(c) =
        [c EXCEPT !.counts = counts, !.enabled = a.wheel, !.chunk = ChunkOf(a),
                  !.phase = "JogCount", !.active = rest, !.rebase = c.rebase \/ last]
  BY DEF PublishNextChunk, Channel
<1> HIDE DEF a, last, counts, rest
<1> QED BY <1>1, <1>2, <1>3, <1>4, <1>5 DEF Channel

LEMMA SteppedType ==
    ASSUME channel \in Channel, NEW f \in Frame
    PROVE  Stepped(f) \in Channel
<1> DEFINE t == ClearTransient(channel)
<1>1. t \in Channel /\ t.active = channel.active /\ t.counts = channel.counts
  BY WithheldType, Zenon DEF ClearTransient, Withheld, Channel
<1>2. Overruns(t) <=> Overruns(channel)
  BY <1>1 DEF Overruns
<1>3. [t EXCEPT !.counts = AtZero, !.phase = "Rebase", !.rebase = FALSE] \in Channel
  BY <1>1, CountFacts DEF Channel
<1>4. ~Overruns(channel) => AdvancedChannel(channel) \in Channel
  BY <1>1, <1>2, <1>3, PublishType DEF AdvancedChannel
<1> QED BY <1>1, <1>4, CancelType DEF Stepped

(* The increment a channel takes, where it takes one.                       *)
LEMMA IncrementFacts ==
    ASSUME NEW c \in Channel, NEW command \in Commands,
           command \notin {JogStop, JogStopImmediate}
    PROVE  /\ command \in Increment
           /\ ~Refuses(c, command) =>
                /\ WithIncrement(c, command) \in Channel
                /\ WithIncrement(c, command).active \in Scheduled
                /\ WithIncrement(c, command).active # None
                /\ ~Overruns(WithIncrement(c, command))
<1>1. command \in Increment /\ command # None
  BY NoneFacts DEF Commands
<1>2. command.motor \in Motors /\ command.path \in Paths /\ command.delta \in Int
  BY <1>1 DEF Increment
<1>3. ASSUME ~Refuses(c, command)
      PROVE  /\ WithIncrement(c, command) \in Channel
             /\ WithIncrement(c, command).active \in Scheduled
             /\ WithIncrement(c, command).active # None
             /\ ~Overruns(WithIncrement(c, command))
  <2> DEFINE wheel == <<command.motor, command.path>>
             direction == IF command.delta > 0 THEN 1 ELSE -1
             remaining == Size(command.delta)
             a == [wheel |-> wheel, direction |-> direction, remaining |-> remaining]
  <2>1. command.delta # 0 /\ ~Overruns(WithIncrement(c, command))
    BY <1>1, <1>3 DEF Refuses
  <2>2. /\ wheel \in Wheels /\ direction \in {-1, 1} /\ remaining \in Nat \ {0}
    BY <1>2, <2>1 DEF Wheels, Size
  <2>3. a \in Scheduled /\ a # None
    <3> HIDE DEF wheel, direction, remaining
    <3> QED BY <2>2, ChannelAssumption DEF Scheduled
  <2>4. WithIncrement(c, command) = [c EXCEPT !.active = a]
    BY DEF WithIncrement
  <2> HIDE DEF a
  <2> QED BY <2>1, <2>3, <2>4 DEF Channel
<1> QED BY <1>1, <1>3

LEMMA AcceptedType ==
    ASSUME NEW c \in Channel, NEW command \in Commands \cup {None}
    PROVE  Accepted(c, command) \in Channel
<1>1. CASE command \in {None, JogStop, JogStopImmediate} \/ Refuses(c, command)
  BY <1>1, CancelType DEF Accepted
<1>2. CASE command \notin {None, JogStop, JogStopImmediate} /\ ~Refuses(c, command)
  <2>1. PublishNextChunk(WithIncrement(c, command)) \in Channel
    BY <1>2, IncrementFacts, PublishType
  <2> QED BY <1>2, <2>1 DEF Accepted
<1> QED BY <1>1, <1>2

(* The supervisor reads the channel as one more HAL input.                  *)
LEMMA ReadinessType ==
    ASSUME NEW f \in Frame
    PROVE  WithReadiness(f) \in Frame
<1> DEFINE b == ChannelReady(Stepped(f))
<1>1. b \in BOOLEAN
  BY DEF ChannelReady
<1>2. f.hal \in Input
  BY DEF Frame
<1> HIDE DEF b
<1>3. [f.hal EXCEPT !.commandReady = b] \in Input
  BY <1>1, <1>2 DEF Input
<1>4. [f EXCEPT !.hal = [f.hal EXCEPT !.commandReady = b]] \in Frame
  BY <1>3 DEF Frame
<1>5. WithReadiness(f) = [f EXCEPT !.hal = [f.hal EXCEPT !.commandReady = b]]
  BY DEF WithReadiness, b, Frame
<1> QED BY <1>4, <1>5
-----------------------------------------------------------------------------
(* The cycle                                                                *)

LEMMA UpdateKeepsRuntime ==
    ASSUME RuntimeInv, NEW f \in Frame, RuntimeUpdate(f)
    PROVE  RuntimeInv' /\ motion'.command \in Commands \cup {None}
<1>1. RuntimeInv'
  BY ClearFaultKeeps, ClearByResetKeeps, OrdinaryKeeps DEF RuntimeUpdate
<1>2. motion' \in Motion
  BY <1>1, MotionInvFacts DEF RuntimeInv, IInv, PowerInv
<1> QED BY <1>1, <1>2 DEF Motion

LEMMA CycleKeeps ==
    ASSUME ServoInv, NEW f \in Frames, Cycle(f)
    PROVE  ServoInv' /\ motion'.command \in Commands \cup {None}
<1>1. f \in Frame /\ WithReadiness(f) \in Frame
  BY RuntimeAssumption, ReadinessType
<1>2. RuntimeInv' /\ motion'.command \in Commands \cup {None}
  BY <1>1, UpdateKeepsRuntime DEF ServoInv, Cycle
<1>3. channel' \in Channel
  BY <1>1, <1>2, SteppedType, AcceptedType DEF ServoInv, Cycle
<1>4. refused' \in BOOLEAN /\ probed' \in BOOLEAN
  BY DEF Cycle, Overruns, Refuses
<1> QED BY <1>2, <1>3, <1>4 DEF ServoInv

LEMMA NextServoInv == ServoInv /\ [ServoNext]_servo => ServoInv'
<1> SUFFICES ASSUME ServoInv, [ServoNext]_servo PROVE ServoInv'
  OBVIOUS
<1>1. CASE ProbeStop
  BY <1>1, ReportsKeep DEF ServoInv, ProbeStop
<1>2. CASE UNCHANGED servo
  BY <1>2, ReportsKeep DEF ServoInv, servo
<1> QED BY <1>1, <1>2, CycleKeeps DEF ServoNext

LEMMA ServoInvariance == ServoSpec => []ServoInv
<1>1. ServoInit => ServoInv
  BY InitRuntimeInv, CountFacts DEF ServoInit, ServoInv
<1> QED BY <1>1, NextServoInv, PTL DEF ServoSpec
-----------------------------------------------------------------------------
(* Nothing is lost and nothing is added                                     *)

(* One chunk of an increment a on wheel w of channel c.                     *)
LEMMA PublishedIsExact ==
    ASSUME NEW c \in Channel, c.active # None, NEW w \in Wheels
    PROVE  LET n == PublishNextChunk(c)
               offered == IF n.enabled = w
                          THEN (n.counts[w] - c.counts[w]) * n.chunk ELSE 0
           IN  offered = Owed(c.active, w) - Owed(n.active, w)
<1> DEFINE n == PublishNextChunk(c)
           a == c.active
           k == ChunkOf(a)
           d == a.direction
           r == a.remaining
<1>1. /\ a \in Scheduled /\ a.wheel \in Wheels /\ d \in {-1, 1}
      /\ c.counts \in [Wheels -> Int]
  BY CountFacts DEF Channel, Scheduled
<1>2. k \in Nat \ {0} /\ k <= r /\ r \in Nat \ {0} /\ r - k \in Nat
  BY <1>1, ChunkFacts
<1>3. /\ n.enabled = a.wheel /\ n.chunk = k
      /\ n.counts = [c.counts EXCEPT ![a.wheel] = @ + d]
      /\ k >= r => n.active = None
      /\ ~(k >= r) => n.active = [a EXCEPT !.remaining = r - k]
  BY DEF PublishNextChunk, Channel
<1>4. ASSUME a.wheel = w
      PROVE  (n.counts[w] - c.counts[w]) * n.chunk = d * k
  <2>1. c.counts[w] \in Int /\ n.counts[w] = c.counts[w] + d
    BY <1>1, <1>3, <1>4
  <2>2. n.counts[w] - c.counts[w] = d
    BY <1>1, <2>1
  <2> QED BY <1>3, <2>2
<1>5. Owed(a, w) = IF a.wheel = w THEN d * r ELSE 0
  BY DEF Owed
<1>6. Owed(n.active, w) = IF a.wheel = w THEN d * (r - k) ELSE 0
  <2>1. CASE k >= r
    <3>1. r - k = 0
      BY <1>2, <2>1
    <3> HIDE DEF k, r, d
    <3>2. d * (r - k) = 0
      BY <1>1, <3>1
    <3> QED BY <1>3, <2>1, <3>2 DEF Owed
  <2>2. CASE ~(k >= r)
    <3> DEFINE b == [a EXCEPT !.remaining = r - k]
    <3>1. b \in Scheduled
      BY <1>1, <1>2, <2>2 DEF Scheduled
    <3>2. b # None
      BY <3>1, ChannelAssumption
    <3>3. b.wheel = a.wheel /\ b.direction = d /\ b.remaining = r - k
      BY <1>1 DEF Scheduled
    <3> HIDE DEF b
    <3> QED BY <1>3, <2>2, <3>2, <3>3 DEF Owed, b
  <2> QED BY <2>1, <2>2
<1> HIDE DEF n, a, k, d, r
<1>7. d * r - d * (r - k) = d * k
  <2>1. CASE d = 1
    BY <1>2, <2>1
  <2>2. CASE d = -1
    BY <1>2, <2>2
  <2> QED BY <1>1, <2>1, <2>2
<1> QED BY <1>3, <1>4, <1>5, <1>6, <1>7 DEF n, a

LEMMA NothingOwed ==
    ASSUME NEW w
    PROVE  Owed(None, w) = 0 /\ Commanded(None, w) = 0
BY NoneFacts DEF Owed, Commanded, Commands

LEMMA OwedType ==
    ASSUME NEW c \in Channel, NEW w
    PROVE  Owed(c.active, w) \in Int
<1>1. ASSUME NEW a \in Scheduled PROVE a.direction * a.remaining \in Int
  BY <1>1 DEF Scheduled
<1>2. c.active \in Scheduled \cup {None}
  BY DEF Channel
<1> QED BY <1>1, <1>2 DEF Owed

LEMMA StoppedOffersNothing ==
    ASSUME NEW c
    PROVE  /\ c \in Channel => /\ ForceStopImmediate(c).phase = "StopImmediate"
                              /\ ForceStopImmediate(c).enabled = None
                              /\ ForceStopImmediate(c).active = None
                              /\ Accepted(c, JogStop).active = None
                              /\ Accepted(c, JogStop).enabled = None
                              /\ Accepted(c, JogStop).phase = "Stop"
BY NoneFacts, CommandFacts
   DEF ForceStopImmediate, CancelIncrement, Withheld, Accepted, Channel

(* What advance() leaves in the channel, by what it found.                  *)
LEMMA SteppedCases ==
    ASSUME channel \in Channel, NEW f
    PROVE  LET t == ClearTransient(channel)
               s == Stepped(f)
           IN  /\ t \in Channel /\ t.active = channel.active
               /\ t.counts = channel.counts
               /\ \/ s.phase = "StopImmediate" /\ s.enabled = None /\ s.active = None
                  \/ channel.active # None /\ s = PublishNextChunk(t)
                  \/ /\ channel.active = None /\ s.active = None /\ s.enabled = None
                     /\ s.phase = "Idle" => s.counts = channel.counts
<1> DEFINE t == ClearTransient(channel)
<1>1. /\ t \in Channel /\ t.active = channel.active /\ t.counts = channel.counts
      /\ t.enabled = None
  BY WithheldType, Zenon DEF ClearTransient, Withheld, Channel
<1>2. CASE f.clear \/ Overruns(channel)
  BY <1>1, <1>2, StoppedOffersNothing DEF Stepped
<1>3. CASE ~f.clear /\ ~Overruns(channel) /\ channel.active # None
  BY <1>1, <1>3 DEF Stepped, AdvancedChannel
<1>4. CASE ~f.clear /\ ~Overruns(channel) /\ channel.active = None
  <2>1. Stepped(f) \in
          {t, [t EXCEPT !.counts = AtZero, !.phase = "Rebase", !.rebase = FALSE]}
    BY <1>1, <1>4 DEF Stepped, AdvancedChannel
  <2> HIDE DEF t
  <2> QED BY <1>1, <1>4, <2>1 DEF Channel, t
<1> QED BY <1>2, <1>3, <1>4

LEMMA CommandedIsOwed ==
    ASSUME NEW c \in Channel, NEW command \in Increment, NEW w \in Wheels,
           WithIncrement(c, command).active # None
    PROVE  Owed(WithIncrement(c, command).active, w) = Commanded(command, w)
<1> DEFINE wheel == <<command.motor, command.path>>
           direction == IF command.delta > 0 THEN 1 ELSE -1
           remaining == Size(command.delta)
<1>1. command.delta \in Int
  BY DEF Increment
<1>2. direction * remaining = command.delta
  BY <1>1 DEF Size
<1>3. WithIncrement(c, command).active =
        [wheel |-> wheel, direction |-> direction, remaining |-> remaining]
  BY DEF WithIncrement, Channel
<1> HIDE DEF direction, remaining
<1> QED BY <1>2, <1>3 DEF Owed, Commanded

LEMMA CycleIsExact ==
    ASSUME ServoInv, NEW f \in Frames, Cycle(f)
    PROVE  OfferIsExact
<1> DEFINE s == Stepped(f)
           command == motion'.command
           t == ClearTransient(channel)
<1>1. /\ channel \in Channel /\ s \in Channel
      /\ command \in Commands \cup {None} /\ channel' = Accepted(s, command)
  BY RuntimeAssumption, SteppedType, CycleKeeps DEF ServoInv, Cycle
<1>2. /\ t \in Channel /\ t.active = channel.active /\ t.counts = channel.counts
      /\ \/ s.phase = "StopImmediate" /\ s.enabled = None /\ s.active = None
         \/ channel.active # None /\ s = PublishNextChunk(t)
         \/ /\ channel.active = None /\ s.active = None /\ s.enabled = None
            /\ s.phase = "Idle" => s.counts = channel.counts
  BY <1>1, SteppedCases
<1> HIDE DEF s, t, command
<1> SUFFICES ASSUME NEW w \in Wheels
             PROVE  IF channel'.phase \in {"Stop", "StopImmediate"}
                    THEN Offered(w) = 0
                    ELSE Offered(w) = Owed(channel.active, w) + Commanded(command, w)
                                        - Owed(channel'.active, w)
  BY DEF OfferIsExact, command
<1>3. None # w
  BY ChannelAssumption
<1>4. Owed(channel.active, w) \in Int /\ Owed(channel'.active, w) \in Int
  BY <1>1, AcceptedType, OwedType
<1>5. CASE command \in {JogStop, JogStopImmediate} \/ Refuses(s, command)
  <2>1. command # None
    BY <1>5, NoneFacts, CommandFacts DEF Refuses
  <2>2. channel' = Accepted(s, JogStop) \/ channel' = ForceStopImmediate(s)
    BY <1>1, <1>5, <2>1 DEF Accepted
  <2> QED BY <1>1, <1>3, <2>2, StoppedOffersNothing DEF Offered
<1>6. CASE command = None
  <2>1. channel' = s /\ Commanded(command, w) = 0 /\ Owed(None, w) = 0
    BY <1>1, <1>6, NothingOwed DEF Accepted
  <2>2. CASE channel.active # None /\ s = PublishNextChunk(t)
    <3>1. Offered(w) = Owed(channel.active, w) - Owed(channel'.active, w)
      BY <1>2, <2>1, <2>2, PublishedIsExact DEF Offered
    <3>2. s.phase = "JogCount"
      BY <1>2, <2>2 DEF PublishNextChunk, Channel
    <3> QED BY <1>4, <2>1, <3>1, <3>2
  <2> QED BY <1>2, <1>3, <2>1, <2>2 DEF Offered
<1>7. CASE command \notin {None, JogStop, JogStopImmediate} /\ ~Refuses(s, command)
  <2> DEFINE c == WithIncrement(s, command)
  <2>1. command \in Increment /\ c \in Channel /\ c.active # None
    BY <1>1, <1>7, IncrementFacts
  <2>2. ChannelReady(s) /\ channel' = PublishNextChunk(c) /\ c.counts = s.counts
    BY <1>1, <1>7 DEF Refuses, Accepted, WithIncrement, Channel
  <2>3. channel.active = None /\ s.counts = channel.counts
    <3>1. s.phase = "Idle"
      BY <2>2 DEF ChannelReady
    <3>2. t \in Channel => PublishNextChunk(t).phase = "JogCount"
      BY DEF PublishNextChunk, Channel
    <3> QED BY <1>2, <3>1, <3>2
  <2>4. Owed(channel.active, w) = 0 /\ Owed(c.active, w) = Commanded(command, w)
    BY <1>1, <2>1, <2>3, NothingOwed, CommandedIsOwed
  <2> HIDE DEF c
  <2>5. Offered(w) = Owed(c.active, w) - Owed(channel'.active, w)
    BY <2>1, <2>2, <2>3, PublishedIsExact DEF Offered
  <2>6. channel'.phase = "JogCount"
    BY <2>1, <2>2 DEF PublishNextChunk, Channel
  <2>7. Commanded(command, w) \in Int
    BY <2>1 DEF Commanded, Increment
  <2> QED BY <1>4, <2>4, <2>5, <2>6, <2>7
<1> QED BY <1>1, <1>5, <1>6, <1>7
-----------------------------------------------------------------------------
(* What the supervisor can ask of the channel: in a cycle that starts       *)
(* without a command it issues an increment only if the channel is ready,   *)
(* a nonzero one of at most the reach of the cycle, and the jog it begins   *)
(* has just been started.                                                   *)

Asked == {t \in Intent : \E x \in Multipliers : Size(t.delta) = Pulses[x]}

Reaches(i, reach) ==
    \A x \in Multipliers : Pulses[x] + Size(i.togo) <= reach

Launched(m, reach) ==
    /\ m.active # None /\ m.active.elapsed = 0
    /\ m.command.delta # 0
    /\ \/ m.phase = "Bouncing" /\ m.command.delta = -BouncePulses
       \/ m.phase \in {"Idle", "BounceReleaseJog"} /\ Size(m.command.delta) <= reach

Jogged(m) ==
    /\ {"command", "pending", "active", "phase", "collision", "fault"} \subseteq DOMAIN m
    /\ m.active \in ActiveJog \cup {None}
    /\ m.pending \in Asked \cup {None}
    /\ m.collision \in Motors \cup {None}
Quiet(m) == Jogged(m) /\ m.command \notin Increment
Sized(m, i, reach) ==
    Jogged(m) /\ (m.command \in Increment => i.commandReady /\ Launched(m, reach))

LEMMA AskedFacts ==
    /\ \A t \in Asked : t.motor \in Motors /\ t.delta \in Int /\ t.delta # 0
    /\ None \notin Asked
<1>1. ASSUME NEW t \in Asked PROVE t.motor \in Motors /\ t.delta \in Int /\ t.delta # 0
  <2>1. t \in Intent /\ \E x \in Multipliers : Size(t.delta) = Pulses[x]
    BY <1>1 DEF Asked
  <2>2. \A x \in Multipliers : Pulses[x] \in Nat \ {0}
    BY InterpreterAssumption
  <2> QED BY <2>1, <2>2 DEF Intent, Size
<1>2. None \notin Asked
  BY NoSelectionAssumption DEF Asked
<1> QED BY <1>1, <1>2

LEMMA DetentIsAsked ==
    ASSUME NEW n, NEW s \in Sample, Decision(n, s) = "Jog"
    PROVE  IntentOf(s) \in Asked
<1>1. s.axis \in Motors /\ s.multiplier \in Multipliers /\ IntentOf(s) \in Intent
  BY IntentType DEF Decision, Selects
<1>2. s.detent \in {-1, 1}
  BY DEF Decision, BadEvidence, Still, Sample, Detents
<1>3. ClockwiseSign[s.axis] \in {-1, 1} /\ Pulses[s.multiplier] \in Nat \ {0}
  BY <1>1, InterpreterAssumption
<1>4. Size(IntentOf(s).delta) = Pulses[s.multiplier]
  <2> DEFINE d == s.detent
             c == ClockwiseSign[s.axis]
             p == Pulses[s.multiplier]
  <2>1. IntentOf(s).delta = d * c * p
    BY DEF IntentOf
  <2>2. p \in Nat \ {0}
    BY <1>3
  <2>3. d \in {-1, 1} /\ c \in {-1, 1}
    BY <1>2, <1>3
  <2> HIDE DEF d, c, p
  <2>4. d * c * p = p \/ d * c * p = -p
    BY <2>2, <2>3
  <2> QED BY <2>1, <2>2, <2>4 DEF Size, p
<1> QED BY <1>1, <1>4 DEF Asked

(* The moves the handlers are made of.                                      *)
LEMMA SizedMoves ==
    ASSUME NEW m, NEW i, NEW reach, Sized(m, i, reach)
    PROVE  /\ \A code : Sized(Fail(m, code), i, reach)
           /\ Sized(CancelPendantMotion(m), i, reach)
           /\ \A t \in Asked : Sized([m EXCEPT !.pending = t], i, reach)
           /\ Sized([m EXCEPT !.pending = None], i, reach)
           /\ \A x : Sized([m EXCEPT !.interp = x], i, reach)
<1>1. \A code : Sized(Fail(m, code), i, reach)
  BY NotIncrements DEF Sized, Jogged, Fail, To, Launched
<1>2. Sized(CancelPendantMotion(m), i, reach)
  BY NotIncrements DEF Sized, Jogged, CancelPendantMotion, To, Launched
<1>3. /\ \A t \in Asked : Sized([m EXCEPT !.pending = t], i, reach)
      /\ Sized([m EXCEPT !.pending = None], i, reach)
      /\ \A x : Sized([m EXCEPT !.interp = x], i, reach)
  BY DEF Sized, Jogged, Launched
<1> QED BY <1>1, <1>2, <1>3

LEMMA QuietMoves ==
    ASSUME NEW m, Quiet(m), NEW i \in Input
    PROVE  /\ \A ph : /\ Quiet(To(m, ph))
                      /\ Quiet(To([m EXCEPT !.active = None], ph))
                      /\ Quiet(To([m EXCEPT !.active = None, !.pending = None], ph))
                      /\ Quiet(To([m EXCEPT !.active = None, !.pending = None,
                                       !.interp = NewInterpreter], ph))
           /\ Quiet(CountTotal(m))
           /\ m.active # None => /\ Quiet(Observe(m, i))
                                 /\ Observe(m, i).active # None
           /\ \A motor : Quiet(BeginLimitReset(m, motor))
           /\ Quiet(FinishUnacceptedJog(m))
           /\ \A code : Quiet(Fail(m, code))
           /\ \A x : Quiet([m EXCEPT !.interp = x]) /\ Quiet([m EXCEPT !.limitReset = x])
           /\ Quiet(CancelPendantMotion(m))
<1>1. Quiet(CountTotal(m))
  BY DEF Quiet, Jogged, CountTotal
<1>2. ASSUME m.active # None
      PROVE  Quiet(Observe(m, i)) /\ Observe(m, i).active # None
  <2>1. m.active \in ActiveJog /\ Elapse(m.active.elapsed) \in Timer
    BY <1>2, TimerFacts DEF Quiet, Jogged, ActiveJog
  <2>2. ObserveMotion(m.active, i) \in ActiveJog
    BY <2>1 DEF ObserveMotion, ActiveJog, WheelActive
  <2>3. ObserveMotion(m.active, i) # None
    BY <2>2, NoneFacts
  <2> QED BY <2>2, <2>3 DEF Quiet, Jogged, Observe
<1>3. \A ph : /\ Quiet(To(m, ph))
              /\ Quiet(To([m EXCEPT !.active = None], ph))
              /\ Quiet(To([m EXCEPT !.active = None, !.pending = None], ph))
              /\ Quiet(To([m EXCEPT !.active = None, !.pending = None,
                               !.interp = NewInterpreter], ph))
  BY DEF Quiet, Jogged, To
<1>4. \A motor : Quiet(BeginLimitReset(m, motor))
  BY DEF Quiet, Jogged, To, BeginLimitReset
<1>5. /\ \A code : Quiet(Fail(m, code))
      /\ \A x : Quiet([m EXCEPT !.interp = x]) /\ Quiet([m EXCEPT !.limitReset = x])
      /\ Quiet(CancelPendantMotion(m))
  BY NotIncrements DEF Quiet, Jogged, Fail, CancelPendantMotion, To
<1> QED BY <1>1, <1>2, <1>3, <1>4, <1>5 DEF FinishUnacceptedJog

LEMMA QuietSized ==
    ASSUME NEW m, Quiet(m), NEW i, NEW reach
    PROVE  Sized(m, i, reach)
BY DEF Quiet, Sized

(* A jog that is issued has been asked for, or is the backoff.              *)
LEMMA IssueSized ==
    ASSUME NEW m, Jogged(m), NEW i \in Input, i.commandReady,
           NEW motor \in Motors, NEW path \in Paths, NEW delta \in Int, delta # 0,
           NEW reach, NEW phase,
           \/ phase = "Bouncing" /\ delta = -BouncePulses
           \/ phase \in {"Idle", "BounceReleaseJog"} /\ Size(delta) <= reach
    PROVE  LET n == Issue(m, motor, path, delta, phase)
           IN  /\ Sized(n, i, reach)
               /\ Sized([n EXCEPT !.pending = None], i, reach)
               /\ Sized([n EXCEPT !.bounceStarted = TRUE], i, reach)
<1> DEFINE a == NewActive(motor, delta, path)
           k == JogIncrement(motor, path, delta)
           n == Issue(m, motor, path, delta, phase)
<1>1. a \in ActiveJog /\ a # None /\ a.elapsed = 0
  <2>1. a \in ActiveJog /\ a.elapsed = 0
    BY TimerFacts DEF NewActive, ActiveJog
  <2> QED BY <2>1, NoneFacts
<1>2. k.delta = delta
  BY DEF JogIncrement
<1>3. n = [To(m, phase) EXCEPT !.command = k, !.active = a]
  BY DEF Issue
<1> HIDE DEF a, k
<1>4. /\ Jogged(n) /\ n.command = k /\ n.active = a /\ n.phase = phase
      /\ Jogged([n EXCEPT !.pending = None])
      /\ Jogged([n EXCEPT !.bounceStarted = TRUE])
  BY <1>1, <1>3 DEF Jogged, To
<1> HIDE DEF n
<1> QED BY <1>1, <1>2, <1>4 DEF Sized, Jogged, Launched, n

LEMMA SizeFacts ==
    ASSUME NEW i \in Input, NEW reach \in Int, Reaches(i, reach), NEW t \in Asked
    PROVE  /\ Size(t.delta) <= reach
           /\ Extension(t, i) \in Int /\ Size(Extension(t, i)) <= reach
<1>1. PICK x \in Multipliers : Size(t.delta) = Pulses[x]
  BY DEF Asked
<1>2. /\ Pulses[x] \in Int /\ i.togo \in Int /\ t.delta \in Int
      /\ Pulses[x] + Size(i.togo) <= reach
  BY InterpreterAssumption, AskedFacts DEF Input, Reaches
<1> QED BY <1>1, <1>2 DEF Size, Extension
-----------------------------------------------------------------------------
(* The handlers of update(), in the order of the code                       *)

LEMMA JogsSized ==
    ASSUME NEW m, NEW i \in Input, NEW reach \in Int, Reaches(i, reach),
           Sized(m, i, reach), NEW t \in Asked
    PROVE  /\ m.active = None => Sized(StartJog(m, t, i), i, reach)
           /\ Sized(RequestJog(m, t, i), i, reach)
<1>0. Jogged(m) /\ t.motor \in Motors /\ t.delta \in Int /\ t.delta # 0
  BY AskedFacts DEF Sized
<1>1. ASSUME m.active = None PROVE Sized(StartJog(m, t, i), i, reach)
  <2>1. i.path # None => i.path \in Paths
    BY DEF Input
  <2>2. i.path # None /\ CanEmit(m, i) =>
          Sized([Issue(m, t.motor, i.path, t.delta, "Idle") EXCEPT !.pending = None],
                i, reach)
    BY <1>0, <2>1, SizeFacts, IssueSized DEF CanEmit
  <2> QED BY <2>2, SizedMoves DEF StartJog
<1>2. ASSUME m.active # None
      PROVE  Sized([m EXCEPT !.active = [@ EXCEPT !.delta = t.delta],
                             !.pending = None], i, reach)
  <2> DEFINE a == [m.active EXCEPT !.delta = t.delta]
  <2>1. a \in ActiveJog /\ a # None /\ a.elapsed = m.active.elapsed
    BY <1>0, <1>2, NoneFacts DEF Jogged, ActiveJog
  <2> HIDE DEF a
  <2>2. Sized([m EXCEPT !.active = a, !.pending = None], i, reach)
    BY <2>1 DEF Sized, Jogged, Launched
  <2> QED BY <2>2 DEF a
<1>3. ASSUME SameMotion(m, t, i), m.active # None, i.commandReady,
             Extension(t, i) # 0
      PROVE  Sized(Extend(m, t, i), i, reach)
  <2> DEFINE a == [m.active EXCEPT !.delta = t.delta, !.elapsed = 0]
             k == JogIncrement(t.motor, m.active.path, Extension(t, i))
  <2>1. a \in ActiveJog /\ a # None /\ a.elapsed = 0
    BY <1>0, <1>3, NoneFacts, TimerFacts DEF Jogged, ActiveJog
  <2>2. k.delta # 0 /\ Size(k.delta) <= reach
    BY <1>3, SizeFacts DEF JogIncrement
  <2>3. m.phase = "Idle"
    BY <1>3 DEF SameMotion
  <2> HIDE DEF a, k
  <2>4. Sized([m EXCEPT !.command = k, !.active = a, !.pending = None], i, reach)
    BY <1>3, <2>1, <2>2, <2>3 DEF Sized, Jogged, Launched
  <2> QED BY <2>4 DEF Extend, a, k
<1>4. Sized(To([m EXCEPT !.pending = t, !.command = JogStop], "StoppingReplace"),
            i, reach)
  BY <1>0, NotIncrements DEF Sized, Jogged, To
<1>5. Sized(RequestJog(m, t, i), i, reach)
  BY <1>1, <1>2, <1>3, <1>4, SizedMoves DEF RequestJog
<1> QED BY <1>1, <1>5

LEMMA BouncesSized ==
    ASSUME NEW m, NEW i \in Input, NEW reach \in Int, Reaches(i, reach), Quiet(m)
    PROVE  /\ \A motor \in Motors : Sized(BeginBounce(m, motor), i, reach)
           /\ \A path \in Paths : Sized(StartBounceMove(m, path, i), i, reach)
           /\ Sized(FinishBounce(m, i), i, reach)
<1>0. Jogged(m) /\ Sized(m, i, reach)
  BY QuietSized DEF Quiet
<1>1. \A code : Sized(Fail(m, code), i, reach)
  BY <1>0, SizedMoves
<1>2. ASSUME NEW motor \in Motors PROVE Sized(BeginBounce(m, motor), i, reach)
  <2>1. Sized(To([m EXCEPT !.command = JogStopImmediate, !.pending = None,
                           !.collision = motor, !.bounceStarted = FALSE],
                 "StoppingBounce"), i, reach)
    BY <1>0, NotIncrements DEF Sized, Jogged, To
  <2> QED BY <1>1, <2>1 DEF BeginBounce
<1>3. ASSUME NEW path \in Paths PROVE Sized(StartBounceMove(m, path, i), i, reach)
  <2>1. ASSUME m.collision # None, CanEmit(m, i)
        PROVE  Sized([Issue(m, m.collision, path, -BouncePulses, "Bouncing") EXCEPT
                         !.bounceStarted = TRUE], i, reach)
    <3>1. -BouncePulses \in Int /\ -BouncePulses # 0
      BY TimerAssumption
    <3>2. m.collision \in Motors
      BY <1>0, <2>1 DEF Jogged
    <3> QED BY <1>0, <2>1, <3>1, <3>2, IssueSized DEF CanEmit
  <2> QED BY <1>0, <1>1, <2>1 DEF StartBounceMove
<1>4. Sized(FinishBounce(m, i), i, reach)
  <2>1. /\ Quiet(To([m EXCEPT !.active = None, !.pending = None,
                             !.interp = NewInterpreter], "BounceReleaseWait"))
        /\ Quiet(BeginLimitReset(m, m.collision))
    BY QuietMoves, Zenon
  <2> QED BY <1>0, <1>1, <2>1, QuietSized DEF FinishBounce
<1> QED BY <1>2, <1>3, <1>4

LEMMA ReleaseSized ==
    ASSUME NEW m, NEW i \in Input, NEW reach \in Int, Reaches(i, reach),
           Sized(m, i, reach), NEW t \in Asked
    PROVE  Sized(StartLimitReleaseJog(m, t, i), i, reach)
<1>1. /\ \A code : Sized(Fail(m, code), i, reach)
      /\ Jogged(m) /\ t.motor \in Motors /\ t.delta \in Int /\ t.delta # 0
      /\ i.path \in Paths \cup {None}
  BY SizedMoves, AskedFacts DEF Sized, Input
<1>2. i.path # None /\ CanEmit(m, i) =>
        Sized([Issue(m, t.motor, i.path, t.delta, "BounceReleaseJog") EXCEPT
                  !.pending = None], i, reach)
  BY <1>1, SizeFacts, IssueSized DEF CanEmit
<1>3. m.phase = "BounceReleaseWait" => Sized(BeginLimitReset(m, m.collision), i, reach)
  <2>1. m.phase = "BounceReleaseWait" => Quiet(m)
    BY DEF Sized, Launched, Quiet
  <2> QED BY <2>1, QuietMoves, QuietSized, Zenon
<1> QED BY <1>1, <1>2, <1>3 DEF StartLimitReleaseJog

LEMMA PhasesSized ==
    ASSUME NEW m, NEW i \in Input, NEW reach \in Int, Reaches(i, reach), Quiet(m)
    PROVE  /\ Sized(AdvanceLatchReset(m, i), i, reach)
           /\ Sized(AdvanceReleaseWait(m, i), i, reach)
           /\ m.active = None => Sized(StartPending(m, i), i, reach)
           /\ m.active # None => Sized(AdvanceStopping(m, i), i, reach)
           /\ Sized(AdvanceBounce(m, i), i, reach)
           /\ Sized(AdvanceJog(m, i), i, reach)
<1>1. /\ Sized(m, i, reach) /\ \A code : Sized(Fail(m, code), i, reach)
      /\ Sized(CancelPendantMotion(m), i, reach)
      /\ Sized(FinishBounce(m, i), i, reach)
      /\ \A code : Sized(Fail(FinishBounce(m, i), code), i, reach)
      /\ \A path \in Paths : Sized(StartBounceMove(m, path, i), i, reach)
      /\ Sized(FinishUnacceptedJog(m), i, reach)
      /\ \A motor : Sized(BeginLimitReset(m, motor), i, reach)
  BY QuietSized, QuietMoves, SizedMoves, BouncesSized, Zenon
<1>2. ASSUME NEW n, Quiet(n), n.active = None
      PROVE  Sized(StartPending(n, i), i, reach)
  <2> DEFINE k == [n EXCEPT !.pending = None]
  <2>1. Sized(k, i, reach) /\ k.active = None
    BY <1>2, QuietSized, SizedMoves DEF Quiet, Jogged
  <2>2. n.pending # None => n.pending \in Asked
    BY <1>2 DEF Quiet, Jogged
  <2> HIDE DEF k
  <2>3. n.pending # None => Sized(StartJog(k, n.pending, i), i, reach)
    BY <2>1, <2>2, JogsSized
  <2> QED BY <1>2, <2>3, QuietSized DEF StartPending, k
<1>3. Sized(AdvanceLatchReset(m, i), i, reach)
  <2>1. /\ Quiet(To([m EXCEPT !.limitReset = {}], "BounceResetValidate"))
        /\ Quiet(To([m EXCEPT !.active = None, !.pending = None, !.collision = None,
                      !.bounceStarted = FALSE, !.interp = NewInterpreter], "Idle"))
    BY DEF Quiet, Jogged, To
  <2> QED BY <1>1, <2>1, QuietSized DEF AdvanceLatchReset
<1>4. Sized(AdvanceReleaseWait(m, i), i, reach)
  BY <1>1 DEF AdvanceReleaseWait
<1>5. /\ Sized(StartPending(To([m EXCEPT !.active = None], "Idle"), i), i, reach)
      /\ Sized(To([m EXCEPT !.active = None, !.pending = None], "Idle"), i, reach)
      /\ Sized(To([m EXCEPT !.active = None, !.pending = None,
                            !.interp = NewInterpreter], "BounceReleaseWait"), i, reach)
  <2>1. To([m EXCEPT !.active = None], "Idle").active = None
    BY DEF To, Quiet, Jogged
  <2> QED BY <1>2, <2>1, QuietMoves, QuietSized, Zenon
<1>6. m.active # None => Sized(AdvanceStopping(m, i), i, reach)
  <2>1. m.active # None => m.active.path \in Paths
    BY DEF Quiet, Jogged, ActiveJog
  <2> QED BY <1>1, <1>5, <2>1 DEF AdvanceStopping
<1>7. Sized(AdvanceBounce(m, i), i, reach)
  BY <1>1 DEF AdvanceBounce
<1>8. Sized(AdvanceJog(m, i), i, reach)
  BY <1>1, <1>5 DEF AdvanceJog
<1> QED BY <1>2, <1>3, <1>4, <1>6, <1>7, <1>8

LEMMA PacketSized ==
    ASSUME NEW m, NEW i \in Input, NEW reach \in Int, Reaches(i, reach),
           Sized(m, i, reach)
    PROVE  Sized(OnPacket(m, i), i, reach)
<1> DEFINE k == [m EXCEPT !.interp = Interpreted(@, i.packet)]
           t == IntentOf(i.packet)
<1>1. Sized(k, i, reach)
  BY SizedMoves
<1> HIDE DEF k
<1>2. /\ Sized(CancelPendantMotion(k), i, reach)
      /\ Sized(Fail(k, "InvalidPendantPacket"), i, reach)
  BY <1>1, SizedMoves
<1>3. ASSUME i.packet # None, Decision(m.interp, i.packet) = "Jog"
      PROVE  t \in Asked
  <2>1. i.packet \in Sample
    BY <1>3 DEF Input
  <2> QED BY <1>3, <2>1, DetentIsAsked
<1> HIDE DEF t
<1>4. t \in Asked => /\ Sized(StartLimitReleaseJog(k, t, i), i, reach)
                     /\ Sized(RequestJog(k, t, i), i, reach)
  BY <1>1, ReleaseSized, JogsSized
<1>5. ASSUME i.packet # None
      PROVE  /\ Sized(OnLimitReleasePacket(m, i), i, reach)
             /\ Sized(OnJogPacket(m, i), i, reach)
  BY <1>1, <1>2, <1>3, <1>4, <1>5 DEF OnLimitReleasePacket, OnJogPacket, k, t
<1> QED BY <1>5 DEF OnPacket

LEMMA RunMotionSized ==
    ASSUME NEW m, NEW i \in Input, NEW reach \in Int, Reaches(i, reach), Quiet(m)
    PROVE  Sized(RunMotion(m, i), i, reach) /\ Quiet(CheckLimits(m, i))
<1>1. ASSUME NEW n, Quiet(n) PROVE Quiet(CheckLimits(n, i))
  <2>1. \A code : Quiet(Fail(n, code))
    BY <1>1, QuietMoves, Zenon
  <2>2. \A motor \in Motors : Quiet(BeginBounce(n, motor))
    <3>1. \A motor \in Motors :
            Quiet(To([n EXCEPT !.command = JogStopImmediate, !.pending = None,
                               !.collision = motor, !.bounceStarted = FALSE],
                     "StoppingBounce"))
      BY <1>1, NotIncrements DEF Quiet, Jogged, To
    <3> QED BY <2>1, <3>1, Zenon DEF BeginBounce
  <2>3. n.active # None => n.active.motor \in Motors
    BY <1>1 DEF Quiet, Jogged, ActiveJog
  <2> QED BY <1>1, <2>1, <2>2, <2>3 DEF CheckLimits
<1>2. Quiet(ManageHomingLatches(m, i))
  <2>1. \A x, y : /\ Quiet([m EXCEPT !.homingWas = x, !.homingElapsed = y])
                  /\ Quiet([m EXCEPT !.limitReset = x, !.homingElapsed = y])
                  /\ Quiet([m EXCEPT !.homingElapsed = x])
    BY DEF Quiet, Jogged
  <2> QED BY <2>1, QuietMoves DEF ManageHomingLatches
<1>3. ASSUME NEW n, Quiet(n) PROVE Sized(AdvanceMotion(n, i), i, reach)
  <2> DEFINE c == CountTotal(n)
             o == Observe(c, i)
  <2>1. Quiet(c)
    BY <1>3, QuietMoves, Zenon
  <2> HIDE DEF c
  <2>2. c.active # None => Quiet(o) /\ o.active # None
    BY <2>1, QuietMoves, Zenon
  <2> HIDE DEF o
  <2>3. c.active # None => Sized(AdvanceActive(c, i), i, reach)
    BY <2>2, PhasesSized, QuietSized DEF AdvanceActive, o
  <2>4. /\ Sized(c, i, reach) /\ Sized(Fail(c, "BounceTimedOut"), i, reach)
        /\ Sized(AdvanceLatchReset(c, i), i, reach)
        /\ Sized(AdvanceReleaseWait(c, i), i, reach)
        /\ c.active = None => Sized(StartPending(c, i), i, reach)
    BY <2>1, QuietSized, SizedMoves, PhasesSized
  <2> QED BY <2>3, <2>4 DEF AdvanceMotion, c
<1>4. ASSUME NEW n, Sized(n, i, reach) PROVE Sized(DrainPending(n, i), i, reach)
  <2> DEFINE k == [n EXCEPT !.pending = None]
  <2>1. Sized(k, i, reach) /\ k.active = n.active
    BY <1>4, SizedMoves DEF Sized, Jogged
  <2>2. n.pending \in Asked \cup {None}
    BY <1>4 DEF Sized, Jogged
  <2> HIDE DEF k
  <2>3. n.pending # None =>
          /\ Sized(RequestJog(k, n.pending, i), i, reach)
          /\ n.active = None => Sized(StartJog(k, n.pending, i), i, reach)
    BY <2>1, <2>2, JogsSized
  <2> QED BY <1>4, <2>3 DEF DrainPending, k
<1>5. Sized(RunMotion(m, i), i, reach)
  <2> DEFINE c == CheckLimits(ManageHomingLatches(m, i), i)
             v == IF c.fault # None THEN c ELSE DrainPending(AdvanceMotion(c, i), i)
  <2>1. Quiet(c)
    BY <1>1, <1>2
  <2> HIDE DEF c
  <2>2. Sized(v, i, reach)
    BY <2>1, <1>3, <1>4, QuietSized
  <2>3. RunMotion(m, i) = IF v.fault # None THEN v ELSE OnPacket(v, i)
    BY DEF RunMotion, c
  <2> HIDE DEF v
  <2> QED BY <2>2, <2>3, PacketSized
<1> QED BY <1>1, <1>5

LEMMA BeginCycleQuiet ==
    ASSUME NEW m \in Motion, m.pending \in Asked \cup {None}, NEW i \in Input
    PROVE  Quiet(BeginCycle(m, i))
<1> DEFINE e == Elapse(m.phaseElapsed)
           k == IF m.phase \in ClockedPhases
                THEN [m EXCEPT !.phaseElapsed = e] ELSE m
           c == [k EXCEPT !.command = None]
           d == [c EXCEPT !.mode = i.mode, !.interp = NewInterpreter,
                          !.pending = None]
<1>1. Jogged(m)
  BY DEF Jogged, Motion
<1> HIDE DEF e
<1>2. Quiet(c)
  BY <1>1, NotIncrements DEF Quiet, Jogged
<1>3. BeginCycle(m, i) = IF c.mode = i.mode THEN c
                         ELSE IF i.mode THEN d ELSE CancelPendantMotion(d)
  BY DEF BeginCycle, SetPendantMode, e
<1> HIDE DEF c
<1>4. Quiet(d)
  BY <1>2 DEF Quiet, Jogged
<1> HIDE DEF d
<1>5. Quiet(CancelPendantMotion(d))
  BY <1>4, QuietMoves, Zenon
<1> QED BY <1>2, <1>3, <1>4, <1>5

LEMMA ResetQuiet ==
    ASSUME NEW m, Quiet(m), NEW i \in Input
    PROVE  /\ Quiet(ResetMotion(m, i))
           /\ \A r, p : AdvanceRecovery(r, p, m, i) => Quiet(motion')
<1>1. Quiet(ResetMotion(m, i))
  <2> DEFINE c == [m EXCEPT !.interp = NewInterpreter,
                            !.collision = SingleOf(i.raw)]
             ph == IF c.collision # None THEN "BounceReleaseWait" ELSE "Idle"
             t == To(c, ph)
  <2>1. Quiet(c)
    BY SingleType DEF Input, Quiet, Jogged
  <2>2. ResetMotion(m, i) \in {Fail(c, "LimitDuringRecovery"), t,
                               [t EXCEPT !.limitReset = Stale(i)]}
    BY DEF ResetMotion
  <2> HIDE DEF c, ph
  <2>3. Quiet(t) /\ Quiet(Fail(c, "LimitDuringRecovery"))
    BY <2>1, QuietMoves, Zenon
  <2> HIDE DEF t
  <2>4. Quiet([t EXCEPT !.limitReset = Stale(i)])
    BY <2>3, QuietMoves, Zenon
  <2> QED BY <2>2, <2>3, <2>4
<1>2. ASSUME NEW r, NEW p, AdvanceRecovery(r, p, m, i) PROVE Quiet(motion')
  <2>1. motion' \in {m, [m EXCEPT !.limitReset = {}],
                     [m EXCEPT !.interp = NewInterpreter],
                     Fail(m, "LimitDuringRecovery"),
                     Fail(m, "LimitLatchResetTimedOut")}
    BY <1>2 DEF AdvanceRecovery, AdvanceLimitReset, AdvanceRequests, SettleFault,
                Recovered, Settle
  <2>2. /\ Quiet([m EXCEPT !.limitReset = {}])
        /\ Quiet([m EXCEPT !.interp = NewInterpreter])
        /\ Quiet(Fail(m, "LimitDuringRecovery"))
        /\ Quiet(Fail(m, "LimitLatchResetTimedOut"))
    BY QuietMoves, Zenon
  <2> QED BY <2>1, <2>2
<1> QED BY <1>1, <1>2

LEMMA StartupSized ==
    ASSUME NEW m, Quiet(m), NEW i \in Input, NEW reach \in Int, Reaches(i, reach)
    PROVE  /\ Quiet(StartupMotion(m, i))
           /\ \A p : AdvanceStartupPower(p, m, i) => Quiet(motion')
           /\ \A p : AdvanceStartupBounce(p, m, i) => Sized(motion', i, reach)
<1>1. Quiet(StartupMotion(m, i))
  <2>1. Quiet(To([m EXCEPT !.active = None, !.pending = None, !.bounceStarted = FALSE,
                           !.collision = SingleOf(i.raw)], "StartupGateSettle"))
    BY SingleType DEF Input, Quiet, Jogged, To
  <2> QED BY <2>1, QuietMoves, Zenon DEF StartupMotion
<1>2. ASSUME NEW p, AdvanceStartupPower(p, m, i) PROVE Quiet(motion')
  <2>1. motion' \in {m, Fail(m, "LimitDuringStartupReset"),
                     Fail(m, "HomingDuringStartupReset"),
                     To(m, "StartupReadyWaitReset"), To(m, "StartupReadyWaitOn"),
                     [To(m, "Idle") EXCEPT !.interp = NewInterpreter]}
    BY <1>2 DEF AdvanceStartupPower, SettleStartup, Settle, AskReset,
                AskMachineOn, FinishStartupPower
  <2>2. Quiet(To(m, "Idle"))
    BY QuietMoves, Zenon
  <2>3. Quiet([To(m, "Idle") EXCEPT !.interp = NewInterpreter])
    BY <2>2, QuietMoves, Zenon
  <2> QED BY <2>1, <2>3, QuietMoves, Zenon
<1>3. ASSUME NEW p, AdvanceStartupBounce(p, m, i) PROVE Sized(motion', i, reach)
  <2>1. \/ motion' \in {m, Fail(m, "BounceLostLimitAttribution"),
                        To(m, "StartupWaitReset"), To(m, "StartupWaitOn")}
        \/ i.path # None /\ motion' = StartBounceMove(m, i.path, i)
    BY <1>3 DEF AdvanceStartupBounce, SettleStartup, Settle, AskReset, AskMachineOn
  <2>2. i.path \in Paths \cup {None}
    BY DEF Input
  <2>3. i.path \in Paths => Sized(StartBounceMove(m, i.path, i), i, reach)
    BY BouncesSized
  <2> QED BY <2>1, <2>2, <2>3, QuietMoves, QuietSized, Zenon
<1> QED BY <1>1, <1>2, <1>3

LEMMA UpdateSized ==
    ASSUME motion \in Motion, motion.pending \in Asked \cup {None},
           NEW i \in Input, NEW reach \in Int, Reaches(i, reach), Update(i)
    PROVE  Sized(motion', i, reach)
<1> DEFINE m == BeginCycle(motion, i)
<1>1. Quiet(m)
  BY BeginCycleQuiet
<1>2. \/ HeldByFault(m) \/ AwaitLink(m) \/ HoldEstop(m, i)
      \/ AcceptAxisReset(m, i) \/ PowerStep(m, i) \/ FollowGesture(m, i)
      \/ LinkFault(m, i) \/ Operate(m, i)
  BY DEF Update
<1> HIDE DEF m
<1>3. CASE HeldByFault(m) \/ AwaitLink(m) \/ FollowGesture(m, i)
  BY <1>1, <1>3, QuietSized DEF HeldByFault, AwaitLink, FollowGesture, Settle
<1>4. CASE HoldEstop(m, i)
  <2>1. Quiet(EngagedMotion(m))
    BY <1>1, NotIncrements, Zenon DEF Quiet, Jogged, EngagedMotion, To
  <2> QED BY <1>1, <1>4, <2>1, QuietSized DEF HoldEstop
<1>5. CASE AcceptAxisReset(m, i) \/ PowerStep(m, i)
  <2> DEFINE n == ResetMotion(m, i)
  <2>1. Quiet(n)
    BY <1>1, ResetQuiet
  <2>2. \/ motion' = n \/ motion' = m
        \/ \E r, p : AdvanceRecovery(r, p, m, i) \/ AdvanceRecovery(r, p, n, i)
    BY <1>5 DEF AcceptAxisReset, PowerStep, BeginLinuxcncEstopReset, Settle
  <2> HIDE DEF n
  <2> QED BY <1>1, <2>1, <2>2, ResetQuiet, QuietSized
<1>6. CASE LinkFault(m, i)
  BY <1>1, <1>6, QuietMoves, QuietSized, Zenon DEF LinkFault, SettleFault, Settle
<1>7. CASE Operate(m, i)
  <2> DEFINE s == StartupMotion(m, i)
             c == CheckLimits(s, i)
  <2>1. Quiet(s)
    BY <1>1, StartupSized
  <2>2. \/ motion' \in {s, c, RunMotion(s, i)}
        \/ \E p : AdvanceStartupPower(p, s, i) \/ AdvanceStartupBounce(p, c, i)
    BY <1>7 DEF Operate, Settle
  <2> HIDE DEF s
  <2>3. Quiet(c) /\ Sized(RunMotion(s, i), i, reach)
    BY <2>1, RunMotionSized
  <2> HIDE DEF c
  <2> QED BY <2>1, <2>2, <2>3, StartupSized, QuietSized
<1> QED BY <1>2, <1>3, <1>4, <1>5, <1>6, <1>7
-----------------------------------------------------------------------------
(* While the channel still has something to offer, in a cycle that has not  *)
(* yet reached its target, the supervisor begins no jog, and the jog it has *)
(* goes on in its phase unless a fault is held or a stop has been issued.   *)

Busy(i) == ~i.commandReady /\ i.togo # 0
Under == {"Idle", "Bouncing", "BounceReleaseJog"}
Stops == {JogStop, JogStopImmediate}

(* jogs: the supervisor had a jog when the cycle began, in phase ph.        *)
Rides(m, jogs, ph, e) ==
    /\ {"command", "active", "phase", "fault"} \subseteq DOMAIN m
    /\ m.active \in ActiveJog \cup {None}
    /\ \/ m.fault # None \/ m.command \in Stops
       \/ ~jogs /\ m.active = None
       \/ jogs /\ m.active # None /\ m.phase = ph /\ m.active.elapsed <= e

LEMMA RidesMoves ==
    ASSUME NEW m, NEW jogs \in BOOLEAN, NEW ph \in Under, NEW e \in Nat,
           Rides(m, jogs, ph, e), NEW i
    PROVE  /\ \A code : Rides(Fail(m, code), jogs, ph, e)
           /\ Rides(CancelPendantMotion(m), jogs, ph, e)
           /\ \A t : Rides([m EXCEPT !.pending = t], jogs, ph, e)
           /\ \A x : Rides([m EXCEPT !.interp = x], jogs, ph, e)
           /\ \A x : Rides([m EXCEPT !.limitReset = x], jogs, ph, e)
           /\ Rides(CountTotal(m), jogs, ph, e)
<1>1. \A code : Rides(Fail(m, code), jogs, ph, e)
  BY DEF Rides, Fail, To, Stops
<1>2. Rides(CancelPendantMotion(m), jogs, ph, e)
  BY DEF Rides, CancelPendantMotion, To, Stops, Under
<1>3. /\ \A t : Rides([m EXCEPT !.pending = t], jogs, ph, e)
      /\ \A x : Rides([m EXCEPT !.interp = x], jogs, ph, e)
      /\ \A x : Rides([m EXCEPT !.limitReset = x], jogs, ph, e)
      /\ Rides(CountTotal(m), jogs, ph, e)
  BY DEF Rides, CountTotal
<1> QED BY <1>1, <1>2, <1>3

(* A handler that ends a jog, in a phase in which there is none to end.     *)
LEMMA RidesEnds ==
    ASSUME NEW m, NEW jogs \in BOOLEAN, NEW ph \in Under, NEW e \in Nat,
           Rides(m, jogs, ph, e), NEW phase,
           m.phase # ph \/ ~jogs \/ m.fault # None \/ m.command \in Stops
    PROVE  /\ Rides(To(m, phase), jogs, ph, e)
           /\ Rides(To([m EXCEPT !.active = None], phase), jogs, ph, e)
           /\ Rides(To([m EXCEPT !.active = None, !.pending = None], phase), jogs, ph, e)
           /\ Rides(To([m EXCEPT !.active = None, !.pending = None,
                                 !.interp = NewInterpreter], phase), jogs, ph, e)
           /\ \A motor : Rides(BeginLimitReset(m, motor), jogs, ph, e)
<1>1. \/ m.fault # None \/ m.command \in Stops
      \/ ~jogs /\ m.active = None
  BY DEF Rides
<1>2. /\ {"command", "active", "phase", "fault"} \subseteq DOMAIN m
      /\ m.active \in ActiveJog \cup {None}
  BY DEF Rides
<1>3. /\ Rides(To(m, phase), jogs, ph, e)
      /\ Rides(To([m EXCEPT !.active = None], phase), jogs, ph, e)
      /\ Rides(To([m EXCEPT !.active = None, !.pending = None], phase), jogs, ph, e)
      /\ Rides(To([m EXCEPT !.active = None, !.pending = None,
                            !.interp = NewInterpreter], phase), jogs, ph, e)
  BY <1>1, <1>2 DEF Rides, To
<1>4. \A motor : Rides(BeginLimitReset(m, motor), jogs, ph, e)
  BY <1>1, <1>2 DEF Rides, To, BeginLimitReset
<1> QED BY <1>3, <1>4

LEMMA JogsRide ==
    ASSUME NEW m, NEW jogs \in BOOLEAN, NEW ph \in Under, NEW e \in Nat,
           Rides(m, jogs, ph, e), NEW i, Busy(i), NEW t
    PROVE  /\ Rides(StartJog(m, t, i), jogs, ph, e)
           /\ Rides(RequestJog(m, t, i), jogs, ph, e)
           /\ \A motor : Rides(BeginBounce(m, motor), jogs, ph, e)
           /\ \A path : Rides(StartBounceMove(m, path, i), jogs, ph, e)
           /\ Rides(StartLimitReleaseJog(m, t, i), jogs, ph, e)
           /\ Rides(FinishBounce(m, i), jogs, ph, e)
<1>0. ~i.commandReady /\ ~CanEmit(m, i) /\ ~TargetReached(i)
  BY DEF Busy, CanEmit, TargetReached
<1>1. /\ \A code : Rides(Fail(m, code), jogs, ph, e)
      /\ \A x : Rides([m EXCEPT !.pending = x], jogs, ph, e)
  BY RidesMoves
<1>2. Rides(StartJog(m, t, i), jogs, ph, e)
  BY <1>0, <1>1 DEF StartJog
<1>3. Rides(RequestJog(m, t, i), jogs, ph, e)
  <2>1. Rides(To([m EXCEPT !.pending = t, !.command = JogStop], "StoppingReplace"),
              jogs, ph, e)
    BY DEF Rides, To, Stops
  <2> QED BY <1>0, <1>1, <1>2, <2>1 DEF RequestJog
<1>4. \A motor : Rides(BeginBounce(m, motor), jogs, ph, e)
  <2>1. \A motor :
          Rides(To([m EXCEPT !.command = JogStopImmediate, !.pending = None,
                             !.collision = motor, !.bounceStarted = FALSE],
                   "StoppingBounce"), jogs, ph, e)
    BY DEF Rides, To, Stops
  <2> QED BY <1>1, <2>1, Zenon DEF BeginBounce
<1>5. /\ \A path : Rides(StartBounceMove(m, path, i), jogs, ph, e)
      /\ Rides(FinishBounce(m, i), jogs, ph, e)
  BY <1>0, <1>1 DEF StartBounceMove, FinishBounce
<1>6. Rides(StartLimitReleaseJog(m, t, i), jogs, ph, e)
  <2>1. m.phase = "BounceReleaseWait" =>
          Rides(BeginLimitReset(m, m.collision), jogs, ph, e)
    BY RidesEnds DEF Under
  <2> QED BY <1>0, <1>1, <2>1 DEF StartLimitReleaseJog
<1> QED BY <1>2, <1>3, <1>4, <1>5, <1>6

LEMMA PhasesRide ==
    ASSUME NEW m, NEW jogs \in BOOLEAN, NEW ph \in Under, NEW e \in Nat,
           Rides(m, jogs, ph, e), NEW i, Busy(i),
           jogs /\ ph # "Bouncing" => e < MotionAcceptTimeout
    PROVE  /\ m.phase \in {"BounceResetAssert", "BounceResetValidate"} =>
                Rides(AdvanceLatchReset(m, i), jogs, ph, e)
           /\ m.phase = "BounceReleaseWait" =>
                Rides(AdvanceReleaseWait(m, i), jogs, ph, e)
           /\ Rides(StartPending(m, i), jogs, ph, e)
           /\ m.phase \in StoppingPhases => Rides(AdvanceStopping(m, i), jogs, ph, e)
           /\ m.active # None /\ m.phase \in {"Bouncing", "BounceReleaseJog"} =>
                Rides(AdvanceBounce(m, i), jogs, ph, e)
           /\ m.active # None /\ m.phase = "Idle" =>
                Rides(AdvanceJog(m, i), jogs, ph, e)
<1>0. ~i.commandReady /\ ~TargetReached(i)
  BY DEF Busy, TargetReached
<1>1. /\ \A code : Rides(Fail(m, code), jogs, ph, e)
      /\ Rides(CancelPendantMotion(m), jogs, ph, e)
      /\ \A path : Rides(StartBounceMove(m, path, i), jogs, ph, e)
      /\ Rides(FinishBounce(m, i), jogs, ph, e)
      /\ \A code : Rides(Fail(FinishBounce(m, i), code), jogs, ph, e)
  BY RidesMoves, JogsRide
<1>2. ASSUME NEW n, Rides(n, jogs, ph, e)
      PROVE  Rides(StartPending(n, i), jogs, ph, e)
  <2>1. Rides([n EXCEPT !.pending = None], jogs, ph, e)
    BY <1>2, RidesMoves
  <2> QED BY <1>2, <2>1, JogsRide DEF StartPending
<1>3. m.phase \in {"BounceResetAssert", "BounceResetValidate"} =>
        Rides(AdvanceLatchReset(m, i), jogs, ph, e)
  <2> SUFFICES ASSUME m.phase \in {"BounceResetAssert", "BounceResetValidate"}
               PROVE  Rides(AdvanceLatchReset(m, i), jogs, ph, e)
    OBVIOUS
  <2>1. \/ m.fault # None \/ m.command \in Stops
        \/ ~jogs /\ m.active = None
    BY DEF Rides, Under
  <2>2. /\ Rides(To([m EXCEPT !.limitReset = {}], "BounceResetValidate"), jogs, ph, e)
        /\ Rides(To([m EXCEPT !.active = None, !.pending = None, !.collision = None,
                      !.bounceStarted = FALSE, !.interp = NewInterpreter], "Idle"),
                 jogs, ph, e)
    BY <2>1 DEF Rides, To
  <2> QED BY <1>1, <2>2 DEF AdvanceLatchReset
<1>4. m.phase = "BounceReleaseWait" => Rides(AdvanceReleaseWait(m, i), jogs, ph, e)
  <2>1. m.phase = "BounceReleaseWait" =>
          Rides(BeginLimitReset(m, m.collision), jogs, ph, e)
    BY RidesEnds DEF Under
  <2> QED BY <1>1, <2>1 DEF AdvanceReleaseWait
<1>5. m.phase \in StoppingPhases => Rides(AdvanceStopping(m, i), jogs, ph, e)
  <2> SUFFICES ASSUME m.phase \in StoppingPhases
               PROVE  Rides(AdvanceStopping(m, i), jogs, ph, e)
    OBVIOUS
  <2>1. m.phase # ph
    BY DEF Under, StoppingPhases
  <2>2. /\ Rides(To([m EXCEPT !.active = None], "Idle"), jogs, ph, e)
        /\ Rides(To([m EXCEPT !.active = None, !.pending = None], "Idle"), jogs, ph, e)
        /\ Rides(To([m EXCEPT !.active = None, !.pending = None,
                              !.interp = NewInterpreter], "BounceReleaseWait"),
                 jogs, ph, e)
    BY <2>1, RidesEnds, Zenon
  <2> QED BY <1>1, <1>2, <2>2 DEF AdvanceStopping
<1>6. ASSUME m.active # None, m.phase \in {"Idle", "BounceReleaseJog"},
             m.active.elapsed >= MotionAcceptTimeout
      PROVE  Rides(FinishUnacceptedJog(m), jogs, ph, e)
  <2>1. m.active.elapsed \in Int /\ MotionAcceptTimeout \in Int
    BY <1>6, TimerAssumption DEF Rides, ActiveJog, Timer, Thresholds
  <2>2. \/ m.fault # None \/ m.command \in Stops
    BY <1>6, <2>1 DEF Rides, Under
  <2> QED BY <2>2 DEF Rides, FinishUnacceptedJog, To
<1>7. m.active # None => m.active.elapsed \in Int /\ MotionAcceptTimeout \in Int
  BY TimerAssumption DEF Rides, ActiveJog, Timer, Thresholds
<1>8. ASSUME m.active # None, m.phase \in {"Bouncing", "BounceReleaseJog"}
      PROVE  Rides(AdvanceBounce(m, i), jogs, ph, e)
  BY <1>1, <1>6, <1>7, <1>8 DEF AdvanceBounce
<1>9. ASSUME m.active # None, m.phase = "Idle"
      PROVE  Rides(AdvanceJog(m, i), jogs, ph, e)
  BY <1>0, <1>1, <1>6, <1>7, <1>9 DEF AdvanceJog
<1> QED BY <1>2, <1>3, <1>4, <1>5, <1>8, <1>9

LEMMA ObserveRides ==
    ASSUME NEW m, NEW jogs \in BOOLEAN, NEW ph \in Under, NEW e \in Nat,
           Rides(m, jogs, ph, e), m.active # None, NEW i
    PROVE  LET o == Observe(m, i)
           IN  Rides(o, jogs, ph, e + 1) /\ o.active # None /\ o.phase = m.phase
<1> DEFINE a == ObserveMotion(m.active, i)
           o == Observe(m, i)
<1>1. m.active \in ActiveJog /\ Elapse(m.active.elapsed) \in Timer
  BY TimerFacts DEF Rides, ActiveJog
<1>2. a \in ActiveJog /\ a.elapsed = Elapse(m.active.elapsed)
  BY <1>1 DEF ObserveMotion, ActiveJog, WheelActive
<1>3. a.elapsed <= m.active.elapsed + 1 /\ m.active.elapsed \in Nat
  BY <1>1, <1>2, TimerAssumption DEF Elapse, Timer, ActiveJog
<1>4. a # None /\ o = [m EXCEPT !.active = a]
  BY <1>2, NoneFacts DEF Observe
<1> HIDE DEF a, o
<1>5. /\ {"command", "active", "phase", "fault"} \subseteq DOMAIN o
      /\ o.active = a /\ o.phase = m.phase /\ o.command = m.command
      /\ o.fault = m.fault
  BY <1>4 DEF Rides
<1>6. a.elapsed \in Nat
  BY <1>1, <1>2, TimerAssumption DEF Timer
<1>7. m.active.elapsed <= e => a.elapsed <= e + 1
  BY <1>3, <1>6
<1> QED BY <1>2, <1>4, <1>5, <1>7 DEF Rides, o

LEMMA PacketRides ==
    ASSUME NEW m, NEW jogs \in BOOLEAN, NEW ph \in Under, NEW e \in Nat,
           Rides(m, jogs, ph, e), NEW i, Busy(i)
    PROVE  Rides(OnPacket(m, i), jogs, ph, e)
<1> DEFINE k == [m EXCEPT !.interp = Interpreted(@, i.packet)]
<1>1. Rides(k, jogs, ph, e)
  BY RidesMoves
<1> HIDE DEF k
<1>2. /\ Rides(CancelPendantMotion(k), jogs, ph, e)
      /\ Rides(Fail(k, "InvalidPendantPacket"), jogs, ph, e)
      /\ \A t : /\ Rides(StartLimitReleaseJog(k, t, i), jogs, ph, e)
                /\ Rides(RequestJog(k, t, i), jogs, ph, e)
  BY <1>1, RidesMoves, JogsRide
<1> QED BY <1>1, <1>2 DEF OnPacket, OnLimitReleasePacket, OnJogPacket, k

LEMMA RunMotionRides ==
    ASSUME NEW m, NEW jogs \in BOOLEAN, NEW ph \in Under, NEW e \in Nat,
           Rides(m, jogs, ph, e), NEW i, Busy(i),
           jogs /\ ph # "Bouncing" => e + 1 < MotionAcceptTimeout
    PROVE  Rides(RunMotion(m, i), jogs, ph, e + 1) /\ Rides(CheckLimits(m, i), jogs, ph, e)
<1>0. ASSUME NEW n, Rides(n, jogs, ph, e) PROVE Rides(n, jogs, ph, e + 1)
  <2>1. n.active # None => n.active.elapsed \in Nat
    BY <1>0, TimerAssumption DEF Rides, ActiveJog, Timer
  <2> QED BY <1>0, <2>1 DEF Rides
<1>1. e + 1 \in Nat
  OBVIOUS
<1>2. ASSUME NEW n, Rides(n, jogs, ph, e) PROVE Rides(CheckLimits(n, i), jogs, ph, e)
  BY <1>2, RidesMoves, JogsRide DEF CheckLimits
<1>3. Rides(ManageHomingLatches(m, i), jogs, ph, e)
  <2>1. \A x, y : /\ Rides([m EXCEPT !.homingWas = x, !.homingElapsed = y], jogs, ph, e)
                  /\ Rides([m EXCEPT !.limitReset = x, !.homingElapsed = y], jogs, ph, e)
                  /\ Rides([m EXCEPT !.homingElapsed = x], jogs, ph, e)
    BY DEF Rides
  <2>2. Rides(CancelPendantMotion([m EXCEPT !.homingWas = TRUE,
                                            !.homingElapsed = 0]), jogs, ph, e)
    BY <2>1, RidesMoves, Zenon
  <2> QED BY <2>1, <2>2, Zenon DEF ManageHomingLatches
<1>4. ASSUME NEW n, Rides(n, jogs, ph, e)
      PROVE  Rides(AdvanceMotion(n, i), jogs, ph, e + 1)
  <2> DEFINE c == CountTotal(n)
             o == Observe(c, i)
  <2>1. Rides(c, jogs, ph, e) /\ c.phase = n.phase
    <3>1. c.phase = n.phase
      BY <1>4 DEF Rides, CountTotal
    <3> QED BY <1>4, <3>1, RidesMoves
  <2> HIDE DEF c
  <2>2. Rides(c, jogs, ph, e + 1)
    BY <2>1, <1>0
  <2>3. c.active # None =>
          Rides(o, jogs, ph, e + 1) /\ o.active # None /\ o.phase = c.phase
    BY <2>1, ObserveRides
  <2> HIDE DEF o
  <2>4. c.active # None => Rides(AdvanceActive(c, i), jogs, ph, e + 1)
    BY <1>1, <2>3, PhasesRide DEF AdvanceActive, o
  <2>5. /\ Rides(Fail(c, "BounceTimedOut"), jogs, ph, e + 1)
        /\ Rides(StartPending(c, i), jogs, ph, e + 1)
        /\ c.phase \in {"BounceResetAssert", "BounceResetValidate"} =>
             Rides(AdvanceLatchReset(c, i), jogs, ph, e + 1)
        /\ c.phase = "BounceReleaseWait" =>
             Rides(AdvanceReleaseWait(c, i), jogs, ph, e + 1)
    BY <1>1, <2>2, RidesMoves, PhasesRide
  <2> QED BY <2>2, <2>4, <2>5 DEF AdvanceMotion, c
<1>5. ASSUME NEW n, Rides(n, jogs, ph, e + 1)
      PROVE  Rides(DrainPending(n, i), jogs, ph, e + 1)
  <2>1. Rides([n EXCEPT !.pending = None], jogs, ph, e + 1)
    BY <1>5, <1>1, RidesMoves
  <2> QED BY <1>5, <1>1, <2>1, JogsRide DEF DrainPending
<1>6. Rides(RunMotion(m, i), jogs, ph, e + 1)
  <2> DEFINE c == CheckLimits(ManageHomingLatches(m, i), i)
             v == IF c.fault # None THEN c ELSE DrainPending(AdvanceMotion(c, i), i)
  <2>1. Rides(c, jogs, ph, e)
    BY <1>2, <1>3
  <2> HIDE DEF c
  <2>2. Rides(v, jogs, ph, e + 1)
    BY <2>1, <1>0, <1>4, <1>5
  <2>3. RunMotion(m, i) = IF v.fault # None THEN v ELSE OnPacket(v, i)
    BY DEF RunMotion, c
  <2> HIDE DEF v
  <2> QED BY <1>1, <2>2, <2>3, PacketRides
<1> QED BY <1>2, <1>6

LEMMA BeginCycleRides ==
    ASSUME NEW m \in Motion, NEW i, m.active # None => m.phase \in Under
    PROVE  LET jogs == m.active # None
               ph == IF jogs THEN m.phase ELSE "Idle"
               e == IF jogs THEN m.active.elapsed ELSE 0
           IN  e \in Nat /\ Rides(BeginCycle(m, i), jogs, ph, e)
<1> DEFINE jogs == m.active # None
           ph == IF jogs THEN m.phase ELSE "Idle"
           e == IF jogs THEN m.active.elapsed ELSE 0
           t == Elapse(m.phaseElapsed)
           k == IF m.phase \in ClockedPhases
                THEN [m EXCEPT !.phaseElapsed = t] ELSE m
           c == [k EXCEPT !.command = None]
           d == [c EXCEPT !.mode = i.mode, !.interp = NewInterpreter,
                          !.pending = None]
<1>1. e \in Nat
  BY TimerAssumption DEF Motion, ActiveJog, Timer
<1>2. Rides(m, jogs, ph, e)
  <2>1. jogs => m.active.elapsed <= e
    BY <1>1
  <2> HIDE DEF e
  <2> QED BY <2>1 DEF Motion, Rides
<1> HIDE DEF t
<1>3. {"command", "active", "phase", "fault"} \subseteq DOMAIN c
      /\ c.active = m.active /\ c.phase = m.phase /\ c.fault = m.fault
  BY DEF Motion
<1>4. BeginCycle(m, i) = IF c.mode = i.mode THEN c
                         ELSE IF i.mode THEN d ELSE CancelPendantMotion(d)
  BY DEF BeginCycle, SetPendantMode, t
<1>5. m.active \in ActiveJog \cup {None} /\ (jogs => m.active.elapsed <= e)
  BY <1>1 DEF Motion
<1> HIDE DEF c, e
<1>6. Rides(c, jogs, ph, e)
  BY <1>3, <1>5 DEF Rides
<1>7. Rides(d, jogs, ph, e)
  <2> HIDE DEF jogs, ph
  <2> QED BY <1>6 DEF Rides
<1>8. ph \in Under
  BY DEF Under
<1> HIDE DEF d, jogs, ph
<1>9. Rides(CancelPendantMotion(d), jogs, ph, e)
  <2>1. jogs \in BOOLEAN
    BY DEF jogs
  <2> QED BY <1>1, <1>7, <1>8, <2>1, RidesMoves
<1> QED BY <1>1, <1>4, <1>6, <1>7, <1>9 DEF jogs, ph, e

(* update(): only the jog branch has a jog to end.                          *)
LEMMA UpdateRides ==
    ASSUME MotionIInv, motion.active # None => motion.phase \in Under,
           NEW i \in Input, Busy(i), Update(i),
           motion.active # None /\ motion.phase # "Bouncing" =>
               motion.active.elapsed + 1 < MotionAcceptTimeout
    PROVE  LET jogs == motion.active # None
               ph == IF jogs THEN motion.phase ELSE "Idle"
               e == IF jogs THEN motion.active.elapsed ELSE 0
           IN  Rides(motion', jogs, ph, e + 1)
<1> DEFINE jogs == motion.active # None
           ph == IF jogs THEN motion.phase ELSE "Idle"
           e == IF jogs THEN motion.active.elapsed ELSE 0
           m == BeginCycle(motion, i)
           On(n) == Rides(n, jogs, ph, e)
<1>1. PowerInv(startup, recovery, power, motion) /\ motion \in Motion
  BY MotionInvFacts DEF MotionIInv, IInv, PowerInv
<1>2. PowerInv(startup, recovery, power, m)
  BY <1>1, BeginCycleKeeps
<1>3. /\ JogInv(startup, recovery, power, m) /\ m.active = motion.active
      /\ m \in Motion
  <2>1. m \in Motion
    BY <1>2, MotionInvFacts DEF PowerInv
  <2> QED BY <1>1, <2>1, BeginCycleJogs DEF MotionIInv
<1>4. e \in Nat /\ On(m)
  BY <1>1, BeginCycleRides
<1>5. \/ HeldByFault(m) \/ AwaitLink(m) \/ HoldEstop(m, i)
      \/ AcceptAxisReset(m, i) \/ PowerStep(m, i) \/ FollowGesture(m, i)
      \/ LinkFault(m, i) \/ Operate(m, i)
  BY DEF Update
<1>6. jogs \in BOOLEAN /\ ph \in Under
  BY DEF Under
<1>7. jogs /\ ph # "Bouncing" => e + 1 < MotionAcceptTimeout
  OBVIOUS
<1>8. ASSUME NEW n, On(n) PROVE Rides(n, jogs, ph, e + 1)
  <2>1. n.active # None => n.active.elapsed \in Nat
    BY <1>8, TimerAssumption DEF Rides, ActiveJog, Timer
  <2> HIDE DEF jogs, ph, e
  <2> QED BY <1>4, <1>8, <2>1 DEF Rides
<1>10. m.active = None <=> ~jogs
  BY <1>3
<1> HIDE DEF m, jogs, ph, e
<1>11. \A n, code : On(n) => On(Fail(n, code))
  BY <1>4, <1>6, RidesMoves
<1>12. CASE HeldByFault(m) \/ AwaitLink(m) \/ FollowGesture(m, i)
  <2>1. motion' = m
    BY <1>12 DEF HeldByFault, AwaitLink, FollowGesture, Settle
  <2> QED BY <1>4, <1>8, <2>1 DEF jogs, ph, e
<1>13. CASE HoldEstop(m, i)
  <2>1. On(EngagedMotion(m))
    BY <1>4, Zenon DEF Rides, EngagedMotion, To, Stops
  <2>2. motion' = m \/ motion' = EngagedMotion(m)
    BY <1>13 DEF HoldEstop
  <2> QED BY <1>4, <1>8, <2>1, <2>2 DEF jogs, ph, e
<1>14. CASE AcceptAxisReset(m, i) \/ PowerStep(m, i)
  <2>1. ~jogs
    BY <1>3, <1>10, <1>14 DEF JogInv, AcceptAxisReset, AxisReset, PowerStep
  <2>2. ASSUME NEW n, On(n)
        PROVE  /\ On(ResetMotion(n, i))
               /\ \A r, p : AdvanceRecovery(r, p, n, i) => On(motion')
    <3> DEFINE c == [n EXCEPT !.interp = NewInterpreter,
                              !.collision = SingleOf(i.raw)]
               t == To(c, IF c.collision # None THEN "BounceReleaseWait" ELSE "Idle")
    <3>1. On(c)
      BY <2>2 DEF Rides
    <3>2. ResetMotion(n, i) \in {Fail(c, "LimitDuringRecovery"), t,
                                 [t EXCEPT !.limitReset = Stale(i)]}
      BY DEF ResetMotion
    <3> HIDE DEF c
    <3>3. On(t)
      BY <1>4, <1>6, <2>1, <3>1, RidesEnds, Zenon
    <3> HIDE DEF t
    <3>4. On([t EXCEPT !.limitReset = Stale(i)]) /\ On(Fail(c, "LimitDuringRecovery"))
      BY <1>4, <1>6, <3>1, <3>3, RidesMoves
    <3>5. ASSUME NEW r, NEW p, AdvanceRecovery(r, p, n, i) PROVE On(motion')
      <4>1. motion' \in {n, [n EXCEPT !.limitReset = {}],
                         [n EXCEPT !.interp = NewInterpreter],
                         Fail(n, "LimitDuringRecovery"),
                         Fail(n, "LimitLatchResetTimedOut")}
        BY <3>5 DEF AdvanceRecovery, AdvanceLimitReset, AdvanceRequests, SettleFault,
                    Recovered, Settle
      <4>2. /\ On([n EXCEPT !.limitReset = {}])
            /\ On([n EXCEPT !.interp = NewInterpreter])
            /\ On(Fail(n, "LimitDuringRecovery"))
            /\ On(Fail(n, "LimitLatchResetTimedOut"))
        BY <1>4, <1>6, <2>2, RidesMoves
      <4> QED BY <2>2, <4>1, <4>2
    <3> QED BY <3>2, <3>3, <3>4, <3>5
  <2> DEFINE n == ResetMotion(m, i)
  <2>3. On(n) /\ \A r, p : AdvanceRecovery(r, p, m, i) => On(motion')
    BY <1>4, <2>2
  <2>4. \A r, p : AdvanceRecovery(r, p, n, i) => On(motion')
    BY <2>2, <2>3
  <2>5. \/ motion' = n \/ motion' = m
        \/ \E r, p : AdvanceRecovery(r, p, m, i) \/ AdvanceRecovery(r, p, n, i)
    BY <1>14 DEF AcceptAxisReset, PowerStep, BeginLinuxcncEstopReset, Settle
  <2> HIDE DEF n, On
  <2>6. On(motion')
    BY <1>4, <2>3, <2>4, <2>5
  <2> QED BY <1>8, <2>6 DEF jogs, ph, e
<1>15. CASE LinkFault(m, i)
  <2>1. \E code : motion' = Fail(m, code)
    BY <1>15 DEF LinkFault, SettleFault, Settle
  <2> QED BY <1>4, <1>8, <1>11, <2>1 DEF jogs, ph, e
<1>16. CASE Operate(m, i)
  <2> DEFINE s == StartupMotion(m, i)
             c == CheckLimits(s, i)
  <2>1. On(s)
    <3>1. startup => ~jogs
      BY <1>3, <1>10 DEF JogInv
    <3>2. ~jogs => On(To([m EXCEPT !.active = None, !.pending = None,
                                  !.bounceStarted = FALSE,
                                  !.collision = SingleOf(i.raw)], "StartupGateSettle"))
      BY <1>4 DEF Rides, To
    <3>3. ~jogs => \A x : On(To(m, x))
      BY <1>4, <1>6, RidesEnds, Zenon
    <3> QED BY <1>4, <1>11, <3>1, <3>2, <3>3 DEF StartupMotion
  <2> HIDE DEF m, s
  <2>2. ASSUME s.phase \in StartupPhases
        PROVE  \A n \in {s, Fail(s, "BounceLostLimitAttribution")} : \A x : On(To(n, x))
    <3>1. s.phase # ph
      BY <1>6, <2>2 DEF Under, StartupPhases, StartupPowerPhases, StartupBouncePhases
    <3>2. \A x : On(To(s, x))
      BY <1>4, <1>6, <2>1, <3>1, RidesEnds, Zenon
    <3> DEFINE k == Fail(s, "BounceLostLimitAttribution")
    <3>3. On(k) /\ (k.fault # None \/ k.command \in Stops)
      BY <1>11, <2>1 DEF Fail, To, Stops, Rides
    <3> HIDE DEF k
    <3>4. \A x : On(To(k, x))
      BY <1>4, <1>6, <3>3, RidesEnds, Zenon
    <3> QED BY <3>2, <3>4 DEF k
  <2>3. CASE s.fault # None /\ motion' = s
    BY <1>8, <2>1, <2>3 DEF jogs, ph, e
  <2>4. CASE s.phase \in StartupPhases /\ \E p : AdvanceStartupPower(p, s, i)
    <3>1. motion' \in {s, Fail(s, "LimitDuringStartupReset"),
                       Fail(s, "HomingDuringStartupReset"),
                       To(s, "StartupReadyWaitReset"), To(s, "StartupReadyWaitOn"),
                       [To(s, "Idle") EXCEPT !.interp = NewInterpreter]}
      BY <2>4 DEF AdvanceStartupPower, SettleStartup, Settle, AskReset,
                  AskMachineOn, FinishStartupPower
    <3>2. On([To(s, "Idle") EXCEPT !.interp = NewInterpreter])
      <4>1. On(To(s, "Idle"))
        BY <2>2, <2>4
      <4> QED BY <1>4, <1>6, <4>1, RidesMoves
    <3>3. On(motion')
      BY <1>11, <2>1, <2>2, <2>4, <3>1, <3>2
    <3> QED BY <1>8, <3>3 DEF jogs, ph, e
  <2>5. CASE /\ s.phase \in StartupBouncePhases
             /\ \/ motion' = c
                \/ \E p : AdvanceStartupBounce(p, c, i)
    <3> DEFINE k == Fail(s, "BounceLostLimitAttribution")
    <3>1. c \in {s, k} /\ s.phase \in StartupPhases
      BY <2>5 DEF CheckLimits, BouncePhases, StartupPhases
    <3>2. On(s) /\ On(k) /\ On(c)
      BY <1>11, <2>1, <3>1
    <3> HIDE DEF c, k
    <3>3. motion' \in {c, Fail(c, "BounceLostLimitAttribution"),
                       To(c, "StartupWaitReset"), To(c, "StartupWaitOn"),
                       StartBounceMove(c, i.path, i)}
      BY <2>5 DEF AdvanceStartupBounce, SettleStartup, Settle, AskReset, AskMachineOn
    <3>4. /\ On(Fail(c, "BounceLostLimitAttribution"))
          /\ On(StartBounceMove(c, i.path, i))
      BY <1>4, <1>6, <1>11, <3>2, JogsRide
    <3>5. On(To(c, "StartupWaitReset")) /\ On(To(c, "StartupWaitOn"))
      BY <2>2, <3>1 DEF k
    <3>6. On(motion')
      BY <3>2, <3>3, <3>4, <3>5
    <3> QED BY <1>8, <3>6 DEF jogs, ph, e
  <2>6. CASE motion' = RunMotion(s, i)
    BY <1>4, <1>6, <1>7, <2>1, <2>6, RunMotionRides DEF jogs, ph, e
  <2> QED
    BY <1>16, <2>3, <2>4, <2>5, <2>6 DEF Operate, Settle, StartupPhases, s, c
<1> QED BY <1>5, <1>12, <1>13, <1>14, <1>15, <1>16 DEF jogs, ph, e
-----------------------------------------------------------------------------
(* An increment the channel carries has counts left for the rest of it, and *)
(* the counts are back at zero before the channel is ready again.           *)

Room(c) ==
    c.active # None =>
        \E k \in Nat :
            /\ c.counts[c.active.wheel] = c.active.direction * k
            /\ k * Budget + c.active.remaining <= Budget * CountMax
Based(c) == c.counts = AtZero \/ c.active # None \/ c.rebase
Carries(c) == Room(c) /\ Based(c)

LEMMA ProductFacts ==
    ASSUME NEW j \in Nat, NEW k \in Nat, NEW b \in Nat
    PROVE  /\ j * b \in Nat /\ (k + 1) * b = k * b + b
           /\ j <= k => j * b <= k * b
<1>1. j * b \in Nat /\ (k + 1) * b = k * b + b
  OBVIOUS
<1>2. ASSUME j <= k PROVE j * b <= k * b
  <2>1. PICK d \in Nat : k = j + d
    <3>1. k - j \in Nat /\ k = j + (k - j)
      BY <1>2
    <3> QED BY <3>1
  <2>2. k * b = j * b + d * b /\ d * b \in Nat
    BY <2>1
  <2> QED BY <2>2
<1> QED BY <1>1, <1>2

LEMMA RoomFits ==
    ASSUME NEW c \in Channel, Room(c)
    PROVE  ~Overruns(c)
<1> SUFFICES ASSUME c.active # None
             PROVE  c.counts[c.active.wheel] + c.active.direction \in Counts
  BY DEF Overruns
<1>1. PICK k \in Nat :
        /\ c.counts[c.active.wheel] = c.active.direction * k
        /\ k * Budget + c.active.remaining <= Budget * CountMax
  BY DEF Room
<1>2. /\ c.active.direction \in {-1, 1} /\ c.active.remaining \in Nat \ {0}
      /\ CountMax \in Nat /\ Budget \in Nat
  BY ChannelAssumption DEF Channel, Scheduled
<1>3. k < CountMax
  <2> SUFFICES ASSUME CountMax <= k PROVE FALSE
    BY <1>2
  <2>1. CountMax * Budget <= k * Budget /\ k * Budget \in Nat
    BY <1>2, ProductFacts
  <2>2. CountMax * Budget = Budget * CountMax
    BY <1>2
  <2> QED BY <1>1, <1>2, <2>1, <2>2
<1>4. CASE c.active.direction = 1
  BY <1>1, <1>2, <1>3, <1>4 DEF Counts
<1>5. CASE c.active.direction = -1
  BY <1>1, <1>2, <1>3, <1>5 DEF Counts
<1> QED BY <1>2, <1>4, <1>5

(* One more chunk: a count more, a budget less.                             *)
LEMMA PublishCarries ==
    ASSUME NEW c \in Channel, Carries(c), c.active # None
    PROVE  LET n == PublishNextChunk(c)
           IN  /\ Carries(n) /\ ~ChannelReady(n)
               /\ n.active # None =>
                      n.active.remaining = c.active.remaining - Budget
<1> DEFINE n == PublishNextChunk(c)
           a == c.active
           b == [a EXCEPT !.remaining = @ - ChunkOf(a)]
<1>1. /\ a \in Scheduled /\ a.wheel \in Wheels /\ a.direction \in {-1, 1}
      /\ c.counts \in [Wheels -> Int]
  BY CountFacts DEF Channel, Scheduled
<1>2. ChunkOf(a) \in Nat /\ a.remaining \in Nat /\ Budget \in Nat
  BY <1>1, ChunkFacts, CountFacts
<1>3. /\ n.counts = [c.counts EXCEPT ![a.wheel] = @ + a.direction]
      /\ n.phase = "JogCount"
      /\ ChunkOf(a) >= a.remaining => n.active = None /\ n.rebase
      /\ ~(ChunkOf(a) >= a.remaining) => n.active = b
  BY DEF PublishNextChunk, Channel
<1>4. ~ChannelReady(n)
  BY <1>3 DEF ChannelReady
<1>5. CASE ChunkOf(a) >= a.remaining
  <2> HIDE DEF n
  <2> QED BY <1>3, <1>4, <1>5 DEF Carries, Room, Based, n
<1>6. CASE ~(ChunkOf(a) >= a.remaining)
  <2>1. ChunkOf(a) = Budget
    BY <1>2, <1>6 DEF ChunkOf
  <2>2. /\ b.wheel = a.wheel /\ b.direction = a.direction
        /\ b.remaining = a.remaining - Budget
    BY <1>1, <2>1 DEF Scheduled
  <2>3. b \in Scheduled
    BY <1>1, <1>2, <1>6 DEF Scheduled
  <2>4. b # None
    BY <2>3, ChannelAssumption
  <2>5. PICK k \in Nat :
          /\ c.counts[a.wheel] = a.direction * k
          /\ k * Budget + a.remaining <= Budget * CountMax
    BY DEF Carries, Room
  <2>6. n.counts[a.wheel] = a.direction * (k + 1)
    <3>1. n.counts[a.wheel] = a.direction * k + a.direction
      BY <1>1, <1>3, <2>5
    <3> HIDE DEF n, a
    <3>2. a.direction * k + a.direction = a.direction * (k + 1)
      <4>1. CASE a.direction = 1
        BY <4>1
      <4>2. CASE a.direction = -1
        BY <4>2
      <4> QED BY <1>1, <4>1, <4>2
    <3> QED BY <3>1, <3>2
  <2>7. (k + 1) * Budget + b.remaining <= Budget * CountMax
    <3>1. (k + 1) * Budget = k * Budget + Budget /\ k * Budget \in Nat
      BY <1>2, ProductFacts
    <3> QED BY <1>2, <2>2, <2>5, <3>1
  <2>8. n.active = b /\ n.active # None /\ k + 1 \in Nat
    BY <1>3, <1>6, <2>4
  <2> HIDE DEF n, a, b
  <2>9. Room(n)
    BY <2>2, <2>6, <2>7, <2>8 DEF Room
  <2>10. Based(n)
    BY <2>8 DEF Based
  <2> QED BY <1>4, <2>2, <2>8, <2>9, <2>10 DEF Carries, n, a
<1> QED BY <1>5, <1>6

LEMMA StopCarries ==
    ASSUME NEW c \in Channel
    PROVE  /\ Carries(ForceStopImmediate(c)) /\ ForceStopImmediate(c).active = None
           /\ Carries(Accepted(c, JogStop)) /\ Accepted(c, JogStop).active = None
<1> DEFINE n == CancelIncrement(c)
<1>1. /\ n.active = None /\ (n.counts = AtZero \/ n.rebase)
      /\ {"active", "counts", "rebase", "phase"} \subseteq DOMAIN n
  BY DEF CancelIncrement, Withheld, Channel
<1>2. /\ ForceStopImmediate(c) = [n EXCEPT !.phase = "StopImmediate"]
      /\ Accepted(c, JogStop) = [n EXCEPT !.phase = "Stop"]
  BY NoneFacts, CommandFacts DEF ForceStopImmediate, Accepted
<1> HIDE DEF n
<1> QED BY <1>1, <1>2 DEF Carries, Room, Based

(* advance()                                                                *)
LEMMA SteppedCarries ==
    ASSUME channel \in Channel, Carries(channel), NEW f
    PROVE  LET s == Stepped(f)
           IN  /\ Carries(s) /\ ~Overruns(channel)
               /\ s.active # None =>
                      /\ channel.active # None /\ ~ChannelReady(s)
                      /\ s.active.remaining = channel.active.remaining - Budget
<1> DEFINE t == ClearTransient(channel)
           s == Stepped(f)
<1>1. /\ t \in Channel /\ t.active = channel.active /\ t.counts = channel.counts
      /\ t.rebase = channel.rebase
  BY WithheldType, Zenon DEF ClearTransient, Withheld, Channel
<1>2. Carries(t) /\ ~Overruns(channel)
  BY <1>1, RoomFits DEF Carries, Room, Based
<1>3. CASE f.clear
  BY <1>2, <1>3, StopCarries DEF Stepped
<1>4. CASE ~f.clear /\ channel.active # None
  <2>1. s = PublishNextChunk(t)
    BY <1>1, <1>2, <1>4 DEF Stepped, AdvancedChannel
  <2> HIDE DEF s, t
  <2> QED BY <1>1, <1>2, <1>4, <2>1, PublishCarries DEF s
<1>5. CASE ~f.clear /\ channel.active = None
  <2> DEFINE r == [t EXCEPT !.counts = AtZero, !.phase = "Rebase", !.rebase = FALSE]
  <2>1. s \in {t, r}
    BY <1>1, <1>2, <1>5 DEF Stepped, AdvancedChannel
  <2>2. r.active = None /\ r.counts = AtZero
    BY <1>1, <1>5 DEF Channel
  <2>3. Carries(r)
    BY <2>2 DEF Carries, Room, Based
  <2> HIDE DEF r, s, t
  <2> QED BY <1>1, <1>2, <1>5, <2>1, <2>2, <2>3 DEF s
<1> QED BY <1>3, <1>4, <1>5

(* accept() of an increment the counts can carry.                           *)
LEMMA AcceptCarries ==
    ASSUME NEW c \in Channel, Carries(c), NEW command \in Increment,
           ChannelReady(c), command.delta # 0,
           Size(command.delta) <= Budget * CountMax
    PROVE  /\ ~Refuses(c, command)
           /\ Carries(Accepted(c, command))
           /\ Accepted(c, command).active # None =>
                  Accepted(c, command).active.remaining =
                      Size(command.delta) - Budget
<1> DEFINE w == WithIncrement(c, command)
           wheel == <<command.motor, command.path>>
           a == [wheel |-> wheel,
                 direction |-> IF command.delta > 0 THEN 1 ELSE -1,
                 remaining |-> Size(command.delta)]
<1>1. c.counts = AtZero
  BY DEF Carries, Based, ChannelReady
<1>2. wheel \in Wheels /\ command.delta \in Int
  BY DEF Increment, Wheels
<1>3. Size(command.delta) \in Nat \ {0}
  BY <1>2 DEF Size
<1>4. a \in Scheduled
  BY <1>2, <1>3 DEF Scheduled
<1>5. a # None
  BY <1>4, ChannelAssumption
<1>6. w = [c EXCEPT !.active = a]
  BY DEF WithIncrement
<1>7. w.active = a /\ w.counts = AtZero /\ w \in Channel
  BY <1>1, <1>4, <1>6 DEF Channel
<1>8. Carries(w)
  <2>1. w.counts[a.wheel] = a.direction * 0
    BY <1>2, <1>7 DEF AtZero
  <2>2. 0 * Budget + a.remaining <= Budget * CountMax
    BY <1>3, ChannelAssumption
  <2> HIDE DEF w, a
  <2> QED BY <1>5, <1>7, <2>1, <2>2 DEF Carries, Room, Based
<1>9. ~Overruns(w)
  BY <1>7, <1>8, RoomFits DEF Carries
<1>10. command \notin {None, JogStop, JogStopImmediate}
  BY NotIncrements
<1>11. ~Refuses(c, command)
  <2>1. Budget * CountMax \in Int
    BY ChannelAssumption
  <2>2. ~(Size(command.delta) > Budget * CountMax)
    BY <1>3, <2>1
  <2> QED BY <1>9, <2>2 DEF Refuses
<1>12. Accepted(c, command) = PublishNextChunk(w)
  BY <1>10, <1>11 DEF Accepted
<1>13. a.remaining = Size(command.delta)
  OBVIOUS
<1> HIDE DEF w, a
<1>14. w.active # None
  BY <1>5, <1>7
<1> QED BY <1>7, <1>8, <1>11, <1>12, <1>13, <1>14, PublishCarries
-----------------------------------------------------------------------------
(* The runtime between advance() and accept()                               *)

(* A cycle of the runtime that does not run update() issues no increment:   *)
(* it clears, it fails, or a guard is not ready and nothing changes.        *)
LEMMA RuntimeShows ==
    ASSUME RuntimeJogInv, motion.pending \in Asked \cup {None},
           NEW f \in Frame, RuntimeUpdate(f)
    PROVE  LET i == SupervisorInput(f)
           IN  /\ i \in Input
               /\ i.commandReady = f.hal.commandReady /\ i.togo = f.hal.togo
               /\ \/ Update(i)
                  \/ Quiet(motion') /\ motion'.command = JogStopImmediate
                  \/ Quiet(motion') /\ motion'.fault # None
                  \/ Quiet(motion') /\ motion' = motion
<1> DEFINE m == MesaUpdated(mesa, f.servoReady, f.hasBit, f.ioError)
           b == m.phase = "Ready" /\ f.uiReady /\ TaskValid(f) /\ PendantValid(f)
           w == WatchdogUpdated(guard, f.watchdogOk, b)
           i == SupervisorInput(f)
           fault == GuardFault(f, m, w)
           running == m.phase = "Ready" /\ w.phase = "Ready"
<1>0. /\ RuntimeTypes /\ IInv /\ MotionIInv /\ RuntimeInv /\ motion \in Motion
      /\ Issued
  BY MotionInvFacts DEF RuntimeJogInv, RuntimeInv, MotionIInv, IInv, PowerInv
<1>1. i \in Input /\ i.commandReady = f.hal.commandReady /\ i.togo = f.hal.togo
  BY <1>0, InputType
<1>2. Quiet(ClearedMotion)
  BY <1>0, NotIncrements, Zenon DEF ClearedMotion, To, Motion, Quiet, Jogged
<1>3. CASE ClearFault(f)
  <2>1. ClearLatchedFault
    BY <1>3 DEF ClearFault
  <2>2. motion' = ClearedMotion /\ motion'.command = JogStopImmediate
    BY <1>0, <2>1, ClearLatchedFaultJogs DEF ClearLatchedFault
  <2> QED BY <1>1, <1>2, <2>2
<1>4. CASE ClearByReset(f)
  <2>1. ClearLatchedFault \/ ClearAndReset(i)
    BY <1>4 DEF ClearByReset, MayReset
  <2>2. motion'.command = JogStopImmediate
    BY <1>0, <1>1, <2>1, ClearLatchedFaultJogs, ClearAndResetJogs
  <2> HIDE DEF i
  <2>3. CASE ClearLatchedFault
    BY <1>1, <1>2, <2>2, <2>3 DEF ClearLatchedFault, i
  <2>4. CASE ClearAndReset(i)
    <3> DEFINE c == ClearedMotion
               n == ResetMotion(c, i)
    <3>1. \/ motion' = n
          \/ \E r, p : AdvanceRecovery(r, p, n, i)
      BY <2>4 DEF ClearAndReset, BeginLinuxcncEstopReset, Settle
    <3> HIDE DEF c
    <3>2. Quiet(n)
      BY <1>1, <1>2, ResetQuiet DEF c
    <3> HIDE DEF n
    <3>3. Quiet(motion')
      BY <1>1, <3>1, <3>2, ResetQuiet
    <3> QED BY <1>1, <2>2, <3>3 DEF i
  <2> QED BY <2>1, <2>3, <2>4
<1>5. CASE Ordinary(f)
  <2>1. /\ fault \in RuntimeFaults \cup {None}
        /\ fault # None => motion.fault = None
        /\ motion.fault = None /\ (m.phase = "Fault" \/ w.phase = "Fault") =>
               fault # None
    BY GuardFaultFacts
  <2>2. /\ mesa.phase = "Ready" => m.phase \in {"Ready", "Fault"}
        /\ guard.phase = "Ready" /\ guard.committed =>
               w.phase \in {"Ready", "Fault"}
    <3> HIDE DEF b
    <3> QED BY <1>0, ReadyGuards DEF RuntimeTypes
  <2>3. \/ running /\ fault = None /\ Update(i)
        \/ running /\ fault # None /\ FaultedUpdate(fault, i)
        \/ ~running /\ fault # None /\ RuntimeFault(fault)
        \/ ~running /\ fault = None /\ UNCHANGED vars
    BY <1>5 DEF Ordinary, Supervise
  <2> HIDE DEF m, w, fault, i
  <2>4. CASE fault # None
    <3> DEFINE n == Fail(motion, fault)
    <3>1. motion.fault = None /\ fault \in Faults
      BY <2>1, <2>4 DEF RuntimeFaults, Faults
    <3>2. n \in Motion /\ n.fault # None /\ n.pending = None
          /\ n.command = JogStopImmediate
      BY <1>0, <3>1, FailFields
    <3>3. \/ motion' = n \/ motion' = BeginCycle(n, i)
      BY <2>3, <2>4 DEF FaultedUpdate, RuntimeFault, SettleFault, Settle
    <3> HIDE DEF n
    <3>4. Quiet(n)
      BY <3>2, NotIncrements DEF Quiet, Jogged, Motion
    <3>5. BeginCycle(n, i).fault = n.fault
      BY <3>2 DEF BeginCycle, SetPendantMode, CancelPendantMotion, To, Motion
    <3>6. Quiet(BeginCycle(n, i))
      BY <1>1, <3>2, BeginCycleQuiet DEF i
    <3> QED BY <1>1, <3>2, <3>3, <3>4, <3>5, <3>6 DEF i
  <2>5. CASE ~running /\ fault = None /\ UNCHANGED vars
    <3>1. motion' = motion
      BY <2>5 DEF vars
    <3>2. motion.command \notin Increment
      <4> SUFFICES ASSUME motion.command \in Increment PROVE FALSE
        OBVIOUS
      <4>1. motion.fault = None
        BY <1>0 DEF MotionIInv, JogInv, Shape
      <4>2. /\ mesa.phase = "Ready" /\ guard.phase = "Ready" /\ guard.committed
        BY <1>0 DEF Issued
      <4> QED BY <2>1, <2>2, <2>5, <4>1, <4>2
    <3>3. Quiet(motion)
      BY <1>0, <3>2 DEF Quiet, Jogged, Motion
    <3> QED BY <1>1, <3>1, <3>3 DEF i
  <2> QED BY <1>1, <2>3, <2>4, <2>5 DEF i
<1> QED BY <1>3, <1>4, <1>5 DEF RuntimeUpdate

(* update() leaves a latched fault where it is.                             *)
LEMMA FaultStays ==
    ASSUME motion \in Motion, motion.fault # None, NEW i, Update(i)
    PROVE  motion'.fault # None
<1> DEFINE m == BeginCycle(motion, i)
<1>1. m.fault = motion.fault
  BY DEF BeginCycle, SetPendantMode, CancelPendantMotion, To, Motion
<1>2. \/ HeldByFault(m) \/ AwaitLink(m) \/ HoldEstop(m, i)
      \/ AcceptAxisReset(m, i) \/ PowerStep(m, i) \/ FollowGesture(m, i)
      \/ LinkFault(m, i) \/ Operate(m, i)
  BY DEF Update
<1> HIDE DEF m
<1>3. HeldByFault(m)
  BY <1>1, <1>2 DEF AwaitLink, HoldEstop, AcceptAxisReset, PowerStep, FollowGesture,
                    LinkFault, Operate, Running, Operable
<1> QED BY <1>1, <1>3 DEF HeldByFault
-----------------------------------------------------------------------------
(* The jog and its increment                                                *)

(* A jog that is being stopped has nothing left in the channel; of any      *)
(* other the channel offers the rest before the supervisor, to which        *)
(* LinuxCNC has not shown that it follows, gives the jog up.  The backoff   *)
(* is not given up, it fails.                                               *)
Timed ==
    /\ motion.phase \in StoppingPhases => channel.active = None
    /\ channel.active # None /\ motion.active # None /\ motion.phase # "Bouncing" =>
           channel.active.remaining + Budget * (motion.active.elapsed + 1)
               <= Budget * (MotionAcceptTimeout + 1)

ServoJogInv ==
    /\ ServoInv /\ RuntimeJogInv /\ ~refused
    /\ motion.pending \in Asked \cup {None}
    /\ Carries(channel)
    /\ Timed

LEMMA LengthFacts ==
    ASSUME NEW f \in Frames
    PROVE  /\ Budget * CountMax \in Int /\ Budget * (MotionAcceptTimeout + 1) \in Int
           /\ BouncePulses <= Budget * CountMax /\ BouncePulses \in Nat
           /\ \A i : i.togo = f.hal.togo =>
                  /\ Reaches(i, Budget * CountMax)
                  /\ Reaches(i, Budget * (MotionAcceptTimeout + 1))
<1>1. MotionAcceptTimeout \in Nat /\ BouncePulses \in Nat
  BY TimerAssumption DEF Thresholds
<1>2. Budget * CountMax \in Int /\ Budget * (MotionAcceptTimeout + 1) \in Int
  BY <1>1, ChannelAssumption
<1> QED BY <1>1, <1>2, LengthAssumption DEF Reaches

(* What update() may have done to the jog in a cycle that leaves both the   *)
(* increment and the command slot as they are.                              *)
Rode ==
    \/ motion'.fault # None
    \/ motion.active = None /\ motion.fault = None /\ motion'.active = None
    \/ /\ motion.active # None /\ motion'.active # None
       /\ motion.phase \in Under /\ motion'.phase = motion.phase
       /\ motion'.active.elapsed <= motion.active.elapsed + 1

LEMMA BudgetFacts ==
    ASSUME NEW b \in Nat \ {0}, NEW r \in Nat \ {0}, NEW e \in Nat, NEW t \in Nat,
           r + b * (e + 1) <= b * (t + 1)
    PROVE  /\ e < t
           /\ r > b => e + 1 < t
           /\ \A d \in Nat : d <= e + 1 => (r - b) + b * (d + 1) <= b * (t + 1)
<1>1. b * (e + 1) \in Nat /\ b * (t + 1) \in Nat /\ b * (e + 2) = b * (e + 1) + b
  OBVIOUS
<1>2. \A x \in Nat, y \in Nat : x <= y => b * x <= b * y
  <2> SUFFICES ASSUME NEW x \in Nat, NEW y \in Nat, x <= y PROVE b * x <= b * y
    OBVIOUS
  <2>1. x * b <= y * b
    BY ProductFacts
  <2>2. x * b = b * x /\ y * b = b * y
    OBVIOUS
  <2> QED BY <2>1, <2>2
<1>3. e < t
  <2> SUFFICES ASSUME t + 1 <= e + 1 PROVE FALSE
    OBVIOUS
  <2>1. b * (t + 1) <= b * (e + 1)
    BY <1>2
  <2> QED BY <1>1, <2>1
<1>4. ASSUME r > b PROVE e + 1 < t
  <2> SUFFICES ASSUME t + 1 <= e + 2 PROVE FALSE
    OBVIOUS
  <2>1. b * (t + 1) <= b * (e + 2)
    BY <1>2
  <2> QED BY <1>1, <1>4, <2>1
<1>5. ASSUME NEW d \in Nat, d <= e + 1
      PROVE  (r - b) + b * (d + 1) <= b * (t + 1)
  <2>1. b * (d + 1) <= b * (e + 2)
    BY <1>2, <1>5
  <2>2. b * (d + 1) \in Nat
    OBVIOUS
  <2> QED BY <1>1, <2>1, <2>2
<1> QED BY <1>3, <1>4, <1>5
-----------------------------------------------------------------------------
(* One servo cycle                                                          *)

LEMMA CycleFacts ==
    ASSUME ServoJogInv, NEW f \in Frames, Cycle(f)
    PROVE  LET g == WithReadiness(f)
               s == Stepped(f)
               i == SupervisorInput(g)
           IN  /\ s \in Channel /\ Carries(s) /\ ~Overruns(channel)
               /\ s.active # None =>
                      /\ channel.active # None /\ ~ChannelReady(s)
                      /\ s.active.remaining = channel.active.remaining - Budget
               /\ i \in Input /\ i.commandReady = ChannelReady(s)
               /\ i.togo = f.hal.togo
               /\ \/ Update(i)
                  \/ Quiet(motion') /\ motion'.command = JogStopImmediate
                  \/ Quiet(motion') /\ motion'.fault # None
                  \/ Quiet(motion') /\ motion' = motion
<1> DEFINE g == WithReadiness(f)
           s == Stepped(f)
           i == SupervisorInput(g)
<1>1. f \in Frame /\ g \in Frame /\ RuntimeUpdate(g)
  BY RuntimeAssumption, ReadinessType DEF Cycle
<1>2. /\ s \in Channel /\ Carries(s) /\ ~Overruns(channel)
      /\ s.active # None =>
             /\ channel.active # None /\ ~ChannelReady(s)
             /\ s.active.remaining = channel.active.remaining - Budget
  BY <1>1, SteppedType, SteppedCarries DEF ServoJogInv, ServoInv
<1>3. g.hal.commandReady = ChannelReady(s) /\ g.hal.togo = f.hal.togo
  BY <1>1 DEF WithReadiness, Frame, Input
<1>4. /\ i \in Input
      /\ i.commandReady = g.hal.commandReady /\ i.togo = g.hal.togo
      /\ \/ Update(i)
         \/ Quiet(motion') /\ motion'.command = JogStopImmediate
         \/ Quiet(motion') /\ motion'.fault # None
         \/ Quiet(motion') /\ motion' = motion
  BY <1>1, RuntimeShows DEF ServoJogInv
<1> QED BY <1>2, <1>3, <1>4

(* Of the channel: what it is given it can take.                            *)
LEMMA CycleCarries ==
    ASSUME ServoJogInv, NEW f \in Frames, Cycle(f)
    PROVE  /\ ~refused' /\ Carries(channel')
           /\ motion'.pending \in Asked \cup {None}
           /\ channel'.active # None =>
                 \/ /\ motion'.command \in Increment /\ motion'.active # None
                    /\ motion'.active.elapsed = 0 /\ motion'.phase \in Under
                    /\ motion'.phase # "Bouncing" =>
                          channel'.active.remaining + Budget
                              <= Budget * (MotionAcceptTimeout + 1)
                 \/ /\ motion'.command = None /\ channel' = Stepped(f)
<1> DEFINE s == Stepped(f)
           i == SupervisorInput(WithReadiness(f))
           c == motion'.command
<1>1. /\ s \in Channel /\ Carries(s) /\ ~Overruns(channel)
      /\ i \in Input /\ i.commandReady = ChannelReady(s) /\ i.togo = f.hal.togo
      /\ Update(i) \/ Quiet(motion')
  BY CycleFacts
<1>2. /\ channel' = Accepted(s, c) /\ refused' = ((~f.clear /\ Overruns(channel)) \/ Refuses(s, c))
      /\ c \in Commands \cup {None}
  BY CycleKeeps DEF ServoJogInv, Cycle
<1>3. motion \in Motion
  BY MotionInvFacts DEF ServoJogInv, ServoInv, RuntimeInv, IInv, PowerInv
<1> HIDE DEF i, s
<1>4. /\ Sized(motion', i, Budget * CountMax)
      /\ Sized(motion', i, Budget * (MotionAcceptTimeout + 1))
  BY <1>1, <1>3, LengthFacts, UpdateSized, QuietSized DEF ServoJogInv
<1>5. motion'.pending \in Asked \cup {None}
  BY <1>4 DEF Sized, Jogged
<1> HIDE DEF c
<1>6. CASE c \in Increment
  <2>1. /\ ChannelReady(s) /\ c.delta # 0 /\ motion'.active # None
        /\ motion'.active.elapsed = 0 /\ motion'.phase \in Under
        /\ \/ motion'.phase = "Bouncing" /\ c.delta = -BouncePulses
           \/ /\ motion'.phase \in {"Idle", "BounceReleaseJog"}
              /\ Size(c.delta) <= Budget * CountMax
              /\ Size(c.delta) <= Budget * (MotionAcceptTimeout + 1)
    BY <1>1, <1>4, <1>6 DEF Sized, Launched, Under, c
  <2>2. Size(c.delta) <= Budget * CountMax
    <3>1. BouncePulses \in Nat /\ BouncePulses <= Budget * CountMax
      BY LengthFacts
    <3> QED BY <2>1, <3>1 DEF Size
  <2>3. /\ ~Refuses(s, c) /\ Carries(Accepted(s, c))
        /\ Accepted(s, c).active # None =>
               Accepted(s, c).active.remaining = Size(c.delta) - Budget
    BY <1>1, <1>6, <2>1, <2>2, AcceptCarries
  <2>4. Size(c.delta) \in Int /\ Budget \in Int
    BY <1>6, CountFacts DEF Increment, Size
  <2>5. channel'.active # None /\ motion'.phase # "Bouncing" =>
          channel'.active.remaining + Budget <= Budget * (MotionAcceptTimeout + 1)
    BY <1>2, <2>1, <2>3, <2>4
  <2> QED BY <1>1, <1>2, <1>5, <1>6, <2>1, <2>3, <2>5 DEF c
<1>7. CASE c \in {JogStop, JogStopImmediate}
  <2>1. Accepted(s, c) = Accepted(s, JogStop) \/ Accepted(s, c) = ForceStopImmediate(s)
    BY <1>7, NoneFacts, CommandFacts DEF Accepted
  <2>2. ~Refuses(s, c)
    BY <1>7 DEF Refuses
  <2> QED BY <1>1, <1>2, <1>5, <2>1, <2>2, StopCarries
<1>8. CASE c = None
  <2>1. Accepted(s, c) = s /\ ~Refuses(s, c)
    BY <1>8 DEF Accepted, Refuses
  <2> QED BY <1>1, <1>2, <1>5, <1>8, <2>1 DEF c, s
<1> QED BY <1>2, <1>6, <1>7, <1>8 DEF Commands

(* Of the jog: in a cycle whose channel is still offering the increment.    *)
LEMMA CycleRides ==
    ASSUME ServoJogInv, NEW f \in Frames, Cycle(f),
           Stepped(f).active # None, motion'.command = None
    PROVE  Rode
<1> DEFINE s == Stepped(f)
           i == SupervisorInput(WithReadiness(f))
           jogs == motion.active # None
           ph == IF jogs THEN motion.phase ELSE "Idle"
           e == IF jogs THEN motion.active.elapsed ELSE 0
<1>1. /\ s.active # None /\ s \in Channel
      /\ channel.active # None /\ ~ChannelReady(s)
      /\ s.active.remaining = channel.active.remaining - Budget
      /\ i \in Input /\ i.commandReady = ChannelReady(s) /\ i.togo = f.hal.togo
      /\ \/ Update(i)
         \/ motion'.command = JogStopImmediate
         \/ motion'.fault # None
         \/ motion' = motion
  BY CycleFacts
<1>2. /\ motion \in Motion /\ channel \in Channel /\ MotionIInv /\ Timed
      /\ Shape(motion)
      /\ motion.fault # None => motion.active = None
  BY MotionInvFacts
     DEF ServoJogInv, ServoInv, RuntimeJogInv, RuntimeInv, MotionIInv, JogInv, IInv,
         PowerInv, Faulted, Inert
<1>3. motion.active # None => motion.phase \in Under
  BY <1>1, <1>2 DEF Shape, MovingPhases, Under, Timed, StoppingPhases
<1>4. motion.active # None =>
        motion.active.elapsed \in Nat
  BY <1>2, TimerAssumption DEF Motion, ActiveJog, Timer
<1>5. motion.active # None /\ motion.phase # "Bouncing" =>
        motion.active.elapsed + 1 < MotionAcceptTimeout
  <2> SUFFICES ASSUME motion.active # None, motion.phase # "Bouncing"
               PROVE  motion.active.elapsed + 1 < MotionAcceptTimeout
    OBVIOUS
  <2> DEFINE r == channel.active.remaining
             d == motion.active.elapsed
  <2>1. r \in Nat \ {0} /\ Budget \in Nat \ {0} /\ MotionAcceptTimeout \in Nat
    BY <1>1, <1>2, ChannelAssumption, TimerAssumption
       DEF Channel, Scheduled, Thresholds
  <2>2. s.active.remaining \in Nat \ {0}
    BY <1>1 DEF Channel, Scheduled
  <2>3. r > Budget
    BY <1>1, <2>1, <2>2
  <2>4. r + Budget * (d + 1) <= Budget * (MotionAcceptTimeout + 1)
    BY <1>1, <1>2 DEF Timed
  <2> HIDE DEF r
  <2> QED BY <1>4, <2>1, <2>3, <2>4, BudgetFacts
<1>6. Busy(i)
  <2>1. f.hal.togo # 0
    BY <1>1 DEF Cycle, Honest
  <2> QED BY <1>1, <2>1 DEF Busy
<1>7. CASE motion' = motion
  <2>1. motion.active # None => motion.active.elapsed <= motion.active.elapsed + 1
    BY <1>4
  <2> QED BY <1>3, <1>7, <2>1 DEF Rode
<1> HIDE DEF s, i
<1>8. CASE Update(i)
  <2>1. Rides(motion', jogs, ph, e + 1)
    BY <1>1, <1>2, <1>3, <1>5, <1>6, <1>8, UpdateRides
  <2>2. motion.fault # None => motion'.fault # None
    BY <1>2, <1>8, FaultStays
  <2>3. motion'.command \notin Stops
    BY NoneFacts, CommandFacts DEF Stops
  <2> QED BY <1>3, <2>1, <2>2, <2>3 DEF Rides, Rode
<1>9. motion'.command # JogStopImmediate
  BY NoneFacts, CommandFacts
<1> QED BY <1>1, <1>7, <1>8, <1>9 DEF Rode

LEMMA CycleTimes ==
    ASSUME ServoJogInv, NEW f \in Frames, Cycle(f)
    PROVE  ServoJogInv' /\ (Orphan' => Orphan)
<1> DEFINE s == Stepped(f)
<1>1. f \in Frame /\ WithReadiness(f) \in Frame
  BY RuntimeAssumption, ReadinessType
<1>2. ServoInv' /\ RuntimeJogInv'
  BY <1>1, CycleKeeps, UpdateIssues DEF ServoJogInv, Cycle
<1>3. /\ ~refused' /\ Carries(channel')
      /\ motion'.pending \in Asked \cup {None}
      /\ channel'.active # None =>
            \/ /\ motion'.command \in Increment /\ motion'.active # None
               /\ motion'.active.elapsed = 0 /\ motion'.phase \in Under
               /\ motion'.phase # "Bouncing" =>
                     channel'.active.remaining + Budget
                         <= Budget * (MotionAcceptTimeout + 1)
            \/ motion'.command = None /\ channel' = s
  BY CycleCarries
<1>4. /\ s \in Channel
      /\ s.active # None =>
             /\ channel.active # None
             /\ s.active.remaining = channel.active.remaining - Budget
             /\ motion'.command = None => Rode
  BY CycleFacts, CycleRides
<1>5. /\ motion \in Motion /\ channel \in Channel /\ Timed
      /\ motion' \in Motion /\ Shape(motion')
      /\ motion'.fault # None => motion'.active = None /\ motion'.phase = "Idle"
      /\ motion'.phase \in StoppingPhases => motion'.active # None
  <2>1. motion \in Motion /\ channel \in Channel /\ Timed
    BY MotionInvFacts DEF ServoJogInv, ServoInv, RuntimeInv, IInv, PowerInv
  <2>2. /\ MotionInv(motion') /\ Shape(motion')
    BY <1>2 DEF RuntimeJogInv, RuntimeInv, IInv, PowerInv, JogInv
  <2>3. motion'.phase \in StoppingPhases => motion'.active # None
    BY <2>2 DEF Shape, MovingPhases, StoppingPhases
  <2>4. motion' \in Motion /\ (motion'.fault # None => Faulted(motion'))
    BY <2>2, MotionInvFacts
  <2> QED BY <2>1, <2>2, <2>3, <2>4 DEF Faulted, Inert
<1> HIDE DEF s
<1>6. Budget \in Nat \ {0} /\ MotionAcceptTimeout \in Nat
  BY ChannelAssumption, TimerAssumption DEF Thresholds
<1>7. ASSUME channel'.active # None
      PROVE  /\ motion'.phase \notin StoppingPhases
             /\ Orphan' => Orphan
             /\ motion'.active # None /\ motion'.phase # "Bouncing" =>
                    channel'.active.remaining + Budget * (motion'.active.elapsed + 1)
                        <= Budget * (MotionAcceptTimeout + 1)
  <2>1. CASE motion'.command \in Increment
    <3>1. /\ motion'.active # None /\ motion'.active.elapsed = 0
          /\ motion'.phase \in Under
          /\ motion'.phase # "Bouncing" =>
                channel'.active.remaining + Budget
                    <= Budget * (MotionAcceptTimeout + 1)
      BY <1>3, <1>7, <2>1, NotIncrements
    <3>2. Budget * (0 + 1) = Budget
      BY <1>6
    <3> QED BY <3>1, <3>2 DEF Under, StoppingPhases, Orphan
  <2>2. CASE motion'.command = None /\ channel' = s
    <3>1. /\ channel.active # None /\ Rode
          /\ channel'.active.remaining = channel.active.remaining - Budget
      BY <1>4, <1>7, <2>2
    <3>2. CASE motion'.fault # None
      BY <1>5, <3>2 DEF Orphan, StoppingPhases
    <3>3. CASE motion.active = None /\ motion.fault = None /\ motion'.active = None
      BY <1>5, <3>1, <3>3 DEF Orphan
    <3>4. CASE /\ motion.active # None /\ motion'.active # None
               /\ motion.phase \in Under /\ motion'.phase = motion.phase
               /\ motion'.active.elapsed <= motion.active.elapsed + 1
      <4>1. /\ motion.active.elapsed \in Nat /\ motion'.active.elapsed \in Nat
            /\ channel.active.remaining \in Nat \ {0}
        BY <1>5, <3>1, <3>4, TimerAssumption
           DEF Motion, ActiveJog, Timer, Channel, Scheduled
      <4>2. ASSUME motion'.phase # "Bouncing"
            PROVE  channel'.active.remaining + Budget * (motion'.active.elapsed + 1)
                       <= Budget * (MotionAcceptTimeout + 1)
        <5>1. channel.active.remaining + Budget * (motion.active.elapsed + 1)
                  <= Budget * (MotionAcceptTimeout + 1)
          BY <1>5, <3>1, <3>4, <4>2 DEF Timed
        <5> QED BY <1>6, <3>1, <3>4, <4>1, <5>1, BudgetFacts
      <4> QED BY <3>4, <4>2 DEF Under, StoppingPhases, Orphan
    <3> QED BY <3>1, <3>2, <3>3, <3>4 DEF Rode
  <2> QED BY <1>3, <1>7, <2>1, <2>2
<1>8. Timed'
  BY <1>7 DEF Timed
<1>9. Orphan' => Orphan
  BY <1>7 DEF Orphan
<1> QED BY <1>2, <1>3, <1>8, <1>9 DEF ServoJogInv

(* A contact only takes a jog away.                                         *)
LEMMA ProbeTimes ==
    ASSUME ServoJogInv, ProbeStop
    PROVE  ServoJogInv'
<1>1. /\ motion' = RetireProbedJog(motion) /\ UNCHANGED <<channel, refused>>
      /\ ReportProbeStop /\ motion \in Motion /\ ServoInv
  BY MotionInvFacts
     DEF ServoJogInv, ServoInv, RuntimeInv, IInv, PowerInv, ProbeStop, ReportProbeStop,
         ObserveManualProbeStop
<1>2. ServoInv' /\ RuntimeJogInv'
  BY <1>1, NextServoInv, ReportsIssue DEF ServoNext, ServoJogInv
<1>3. motion' = motion \/ /\ motion'.pending = None
                          /\ \/ motion'.active = None /\ motion'.phase = "Idle"
                             \/ /\ motion'.active = None /\ motion.active = None
                                /\ motion'.phase = motion.phase
  BY <1>1 DEF RetireProbedJog, To, Motion
<1>4. motion'.pending \in Asked \cup {None} /\ Timed'
  BY <1>1, <1>3 DEF ServoJogInv, Timed, StoppingPhases
<1> QED BY <1>1, <1>2, <1>4 DEF ServoJogInv, Carries, Room, Based

LEMMA NextServoJogInv == ServoJogInv /\ [ServoNext]_servo => ServoJogInv'
<1> SUFFICES ASSUME ServoJogInv, [ServoNext]_servo PROVE ServoJogInv'
  OBVIOUS
<1>1. CASE UNCHANGED servo
  <2>1. ServoInv'
    BY NextServoInv DEF ServoJogInv
  <2>2. RuntimeJogInv'
    BY <1>1, ReportsIssue DEF ServoJogInv, servo
  <2> QED BY <1>1, <2>1, <2>2
          DEF ServoJogInv, servo, vars, Carries, Room, Based, Timed
<1> QED BY <1>1, CycleTimes, ProbeTimes DEF ServoNext

LEMMA ServoJogInvariance == ServoSpec => []ServoJogInv
<1>1. ServoInit => ServoJogInv
  <2> SUFFICES ASSUME ServoInit PROVE ServoJogInv
    OBVIOUS
  <2>1. ServoInv /\ RuntimeJogInv
    BY InitRuntimeInv, InitRuntimeJogInv, CountFacts DEF ServoInit, ServoInv
  <2>2. motion.pending = None /\ ~refused /\ channel = NewChannel
    BY DEF ServoInit, RuntimeInit, Init, InitMotion
  <2>3. channel.active = None /\ channel.counts = AtZero
    BY <2>2 DEF NewChannel
  <2> QED BY <2>1, <2>2, <2>3 DEF ServoJogInv, Carries, Room, Based, Timed
<1> QED BY <1>1, NextServoJogInv, PTL DEF ServoSpec
-----------------------------------------------------------------------------
(* motion.rs, cycle.rs: the counts stay in the width HAL gives them, and    *)
(* no scheduled increment is empty or negative.                             *)
THEOREM ServoTypeCorrect == ServoSpec => []ServoTypeOK
<1>1. ServoInv => ServoTypeOK
  BY MotionInvFacts
     DEF ServoInv, ServoTypeOK, RuntimeInv, RuntimeTypes, RuntimeTypeOK, IInv,
         PowerInv, TypeOK, GestureInv
<1> QED BY <1>1, ServoInvariance, PTL

(* runtime.rs clear_fault_state(), behind the realtime component.           *)
THEOREM ServoGuardFaultsHeld == ServoSpec => []GuardFaultsAreHeld
<1>1. ServoInv => GuardFaultsAreHeld
  BY DEF ServoInv, RuntimeInv
<1> QED BY <1>1, ServoInvariance, PTL

(* runtime.rs, update.rs: a press that was read keeps the gate closed,      *)
(* behind the realtime component.                                           *)
THEOREM ServoPressObeyed == ServoSpec => []PressIsObeyed
<1>1. ServoInv => PressIsObeyed
  BY DEF ServoInv, RuntimeInv
<1> QED BY <1>1, ServoInvariance, PTL

(* motion.rs publish_next_chunk(), accept_increment(), cancel_increment():  *)
(* for every length and every budget the chunks of an increment are the     *)
(* increment, and a stop, a rebase or a silent wheel offers nothing.        *)
THEOREM OffersExact == ServoSpec => OffersAreExact
<1>1. ServoInv /\ [ServoNext]_servo => [OfferIsExact]_channel
  BY CycleIsExact DEF ServoNext, ProbeStop, servo
<1> QED BY <1>1, ServoInvariance, PTL DEF ServoSpec, OffersAreExact

(* motion.rs checked_add, jog.rs emit_jog(): an error of the channel, which *)
(* would stop the machine in the middle of a jog, does not occur: no count  *)
(* overruns its width and no increment is issued that is empty, too long    *)
(* for the counts, or ahead of the rebase of the one before.                *)
THEOREM NothingRefused == ServoSpec => []NothingIsRefused
<1>1. ServoJogInv => NothingIsRefused
  BY DEF ServoJogInv, NothingIsRefused
<1> QED BY <1>1, ServoJogInvariance, PTL

(* jog.rs cancel_pendant_motion(), limits.rs, clear_latched_fault(): with   *)
(* no fault held only a probe contact leaves an increment without its jog.  *)
THEOREM ContactsOrphan == ServoSpec => OnlyContactsOrphan
<1> DEFINE A == Orphan' /\ ~Orphan => probed'
<1>1. ServoJogInv /\ [ServoNext]_servo => [A]_servo
  BY CycleTimes DEF ServoNext, ProbeStop
<1>2. ServoSpec => [][A]_servo
  BY <1>1, ServoJogInvariance, PTL DEF ServoSpec
<1> QED BY <1>2 DEF OnlyContactsOrphan

(* runtime.rs outputs(), cycle.rs: behind the realtime component an         *)
(* increment is published only in the cycle it is issued in, and without a  *)
(* live task heartbeat none is issued but the backoff's.                    *)
THEOREM ServoCommands ==
    ServoSpec => [](CommandsAreOfThisCycle /\ StaleTaskStartsNoJog)
<1>1. ServoJogInv => CommandsAreOfThisCycle /\ StaleTaskStartsNoJog
  BY DEF ServoJogInv, RuntimeJogInv, Issued, CommandsAreOfThisCycle,
         StaleTaskStartsNoJog
<1> QED BY <1>1, ServoJogInvariance, PTL
===============================================================================
