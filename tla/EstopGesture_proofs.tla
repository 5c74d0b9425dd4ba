------------------------- MODULE EstopGesture_proofs -------------------------
(***************************************************************************)
(* Proofs about EstopGesture: its types, what an unlock takes, and that it  *)
(* implements GestureScript.  First the operators of the automaton: the     *)
(* invariant of a gesture ties the click counter to the stage, without which*)
(* neither the type of the counter nor the end of the gesture is inductive, *)
(* and says that every stage past the first move holds an error counter to  *)
(* compare the next packet with.                                            *)
(***************************************************************************)
EXTENDS EstopGesture, TLAPS

EarlyStages ==
    {"Inactive", "WaitEstopRelease", "WaitX10", "WaitX1", "WaitOff",
     "WaitClockwise", "WaitCounterclockwise"}
IdleStages == {"Inactive", "WaitEstopRelease", "WaitX10"}

GestureInv(g) ==
    /\ g \in Recovery
    /\ g.stage \in EarlyStages => g.clicks = 0
    /\ g.stage \in {"WaitButtonPress", "WaitButtonRelease"} => g.clicks \in 0..2
    /\ g.stage = "CompletePending" => g.clicks = 3
    /\ g.stage \notin IdleStages => g.quadrature \in Quadratures
-----------------------------------------------------------------------------
(* The table of the automaton, read at each of its stages.                  *)
LEMMA StageAfterValues ==
    /\ StageAfter["WaitEstopRelease"] = "WaitX1"
    /\ StageAfter["WaitX10"] = "WaitX1"
    /\ StageAfter["WaitX1"] = "WaitOff"
    /\ StageAfter["WaitOff"] = "WaitClockwise"
    /\ StageAfter["WaitClockwise"] = "WaitCounterclockwise"
    /\ StageAfter["WaitCounterclockwise"] = "WaitButtonPress"
    /\ StageAfter["WaitButtonPress"] = "WaitButtonRelease"
BY DEF StageAfter

(* One accepted packet, from each stage that awaits one.                    *)
LEMMA AdvancedKeepsInv ==
    ASSUME NEW g, GestureInv(g), NEW s \in Sample, Awaited(g, s),
           g.quadrature \in Quadratures
    PROVE  /\ GestureInv(Advanced(g))
           /\ Advanced(g).quadrature = g.quadrature
<1> USE DEF GestureInv
<1>1. CASE g.stage = "WaitButtonRelease"
  <2> DEFINE c == g.clicks + 1
             t == IF c = 3 THEN "CompletePending" ELSE "WaitButtonPress"
  <2>1. c \in 0..3 /\ t \in Stages
    BY <1>1 DEF Stages
  <2>2. Advanced(g) = [g EXCEPT !.clicks = c, !.stage = t]
    BY <1>1 DEF Advanced
  <2>3. /\ t = "CompletePending" => c = 3
        /\ t # "CompletePending" => t = "WaitButtonPress" /\ c \in 0..2
    BY <2>1
  <2> HIDE DEF c, t
  <2>4. /\ Advanced(g) \in Recovery
        /\ Advanced(g).clicks = c /\ Advanced(g).stage = t
        /\ Advanced(g).quadrature = g.quadrature
    BY <2>1, <2>2 DEF Recovery
  <2> QED
    BY <2>3, <2>4 DEF EarlyStages, IdleStages
<1>2. CASE g.stage # "WaitButtonRelease"
  <2>1. g.stage \in {"WaitEstopRelease", "WaitX10", "WaitX1", "WaitOff",
                     "WaitClockwise", "WaitCounterclockwise", "WaitButtonPress"}
    BY <1>2 DEF Awaited
  <2>2. Advanced(g) = [g EXCEPT !.stage = StageAfter[g.stage]]
    BY <1>2 DEF Advanced
  <2>3. StageAfter[g.stage] \in
            {"WaitX1", "WaitOff", "WaitClockwise", "WaitCounterclockwise",
             "WaitButtonPress", "WaitButtonRelease"}
    BY <2>1, StageAfterValues
  <2>4. g.stage # "WaitButtonPress" => g.stage \in EarlyStages
    BY <2>1 DEF EarlyStages
  <2>5. g.clicks \in 0..2
    BY <2>1, <2>4
  <2>6. StageAfter[g.stage] = "WaitButtonRelease" \/ g.clicks = 0
    BY <2>1, <2>4, StageAfterValues
  <2> QED
    BY <2>2, <2>3, <2>5, <2>6 DEF Recovery, Stages, EarlyStages, IdleStages
<1> QED BY <1>1, <1>2

(* engage(), restart() and accept_unlock() leave nothing of the gesture.    *)
LEMMA ResetsKeepInv ==
    ASSUME NEW s \in Sample
    PROVE  GestureInv(Engaged(s)) /\ GestureInv(Restarted(s))
BY DEF Sample, GestureInv, Engaged, Restarted, Recovery, Stages, EarlyStages,
       IdleStages

LEMMA InactiveKeepsInv == GestureInv(InactiveRecovery)
BY DEF GestureInv, InactiveRecovery, Recovery, Stages, EarlyStages, IdleStages

(* The gesture under the error counter of the packet being processed.       *)
Counted(g, s) == [g EXCEPT !.quadrature = s.quadrature]

(* The outcomes of process(), the only ones there are.                      *)
LEMMA ProcessedCases ==
    ASSUME NEW g, GestureInv(g), NEW s \in Sample
    PROVE  \/ ~RecoveryActive(g) /\ Processed(g, s) = g
           \/ Processed(g, s) = Engaged(s)
           \/ Processed(g, s) = Restarted(s)
           \/ /\ RecoveryActive(g) /\ ~s.pressed
              /\ g.quadrature = None \/ g.quadrature = s.quadrature
              /\ \/ Awaited(Counted(g, s), s)
                    /\ Processed(g, s) = Advanced(Counted(g, s))
                 \/ Tolerated(Counted(g, s), s)
                    /\ Processed(g, s) = Counted(g, s)
BY DEF Processed, Counted

(* The error counter the packet brings is the only change before the move.  *)
LEMMA CountedKeepsInv ==
    ASSUME NEW g, GestureInv(g), NEW s \in Sample
    PROVE  /\ GestureInv(Counted(g, s))
           /\ Counted(g, s).quadrature = s.quadrature
           /\ Counted(g, s).stage = g.stage
           /\ Counted(g, s).clicks = g.clicks
           /\ s.quadrature \in Quadratures
BY DEF Sample, GestureInv, Recovery, Counted

LEMMA ProcessedKeepsInv ==
    ASSUME NEW g, GestureInv(g), NEW s \in Sample
    PROVE  GestureInv(Processed(g, s))
<1>1. Awaited(Counted(g, s), s) => GestureInv(Advanced(Counted(g, s)))
  BY CountedKeepsInv, AdvancedKeepsInv
<1> QED
  BY <1>1, ResetsKeepInv, CountedKeepsInv, ProcessedCases
-----------------------------------------------------------------------------
(* The gesture as a state machine                                           *)

IInv ==
    /\ GestureInv(recovery)
    /\ unlock \in BOOLEAN
    /\ packet \in Samples \cup {None}

(* A packet of the model carries a counter the gesture can be held to.      *)
LEMMA SampleType ==
    ASSUME NEW s \in Samples
    PROVE  s \in Sample /\ s # None /\ s.quadrature \in Quadratures
BY SamplesAssumption DEF Sample
-----------------------------------------------------------------------------
LEMMA InitIInv == Init => IInv
BY InactiveKeepsInv DEF Init, IInv

LEMMA NextIInv == IInv /\ [Next]_vars => IInv'
<1> SUFFICES ASSUME IInv, [Next]_vars PROVE IInv'
  OBVIOUS
<1> USE DEF IInv
<1>1. ASSUME NEW s \in Samples, Engage(s) PROVE IInv'
  BY <1>1, ResetsKeepInv, SampleType DEF Engage
<1>2. ASSUME NEW s \in Samples, Process(s) PROVE IInv'
  <2>1. GestureInv(recovery')
    BY <1>2, ProcessedKeepsInv, SampleType DEF Process
  <2>2. unlock' \in BOOLEAN
    BY <1>2 DEF Process, UnlockRequested
  <2> QED BY <1>2, <2>1, <2>2 DEF Process
<1>3. ASSUME NEW s \in Samples, Restart(s) PROVE IInv'
  BY <1>3, ResetsKeepInv, SampleType DEF Restart
<1>4. CASE AcceptUnlock
  BY <1>4, InactiveKeepsInv DEF AcceptUnlock
<1>5. CASE UNCHANGED vars
  BY <1>5 DEF vars
<1> QED BY <1>1, <1>2, <1>3, <1>4, <1>5 DEF Next

LEMMA IInvariance == Spec => []IInv
BY InitIInv, NextIInv, PTL DEF Spec

(* recovery.rs: the stage, the click count and the error counter stay in    *)
(* range whatever packets arrive and whenever the supervisor engages,       *)
(* restarts or accepts the gesture.                                         *)
THEOREM TypeCorrect == Spec => []TypeOK
<1>1. IInv => TypeOK
  BY DEF IInv, TypeOK, GestureInv
<1> QED BY <1>1, IInvariance, PTL
-----------------------------------------------------------------------------
(* How far each stage is in the script.                                     *)
LEMMA MatchedValues ==
    ASSUME NEW g
    PROVE  /\ g.stage \in IdleStages => MatchedBy(g) = 0
           /\ g.stage = "WaitX1" => MatchedBy(g) = 1
           /\ g.stage = "WaitOff" => MatchedBy(g) = 2
           /\ g.stage = "WaitClockwise" => MatchedBy(g) = 3
           /\ g.stage = "WaitCounterclockwise" => MatchedBy(g) = 4
           /\ g.stage \in {"WaitButtonPress", "CompletePending"} =>
                  MatchedBy(g) = 5 + 2 * g.clicks
           /\ g.stage = "WaitButtonRelease" => MatchedBy(g) = 6 + 2 * g.clicks
BY DEF MatchedBy, IdleStages

(* The script, move by move.                                                *)
LEMMA ScriptValues ==
    /\ Len(Promise!Script) = 11
    /\ Promise!Script[1] = "X10" /\ Promise!Script[2] = "X1"
    /\ Promise!Script[3] = "Off" /\ Promise!Script[4] = "Clockwise"
    /\ Promise!Script[5] = "Counterclockwise"
    /\ \A n \in 0..2 : /\ Promise!Script[6 + 2 * n] = "Press"
                       /\ Promise!Script[7 + 2 * n] = "Release"
<1>1. /\ Len(Promise!Script) = 11
      /\ Promise!Script[1] = "X10" /\ Promise!Script[2] = "X1"
      /\ Promise!Script[3] = "Off" /\ Promise!Script[4] = "Clockwise"
      /\ Promise!Script[5] = "Counterclockwise"
      /\ Promise!Script[6] = "Press" /\ Promise!Script[7] = "Release"
      /\ Promise!Script[8] = "Press" /\ Promise!Script[9] = "Release"
      /\ Promise!Script[10] = "Press" /\ Promise!Script[11] = "Release"
  BY DEF Promise!Script
<1>2. ASSUME NEW n \in 0..2
      PROVE  /\ Promise!Script[6 + 2 * n] = "Press"
             /\ Promise!Script[7 + 2 * n] = "Release"
  <2>1. CASE n = 0 BY <2>1, <1>1
  <2>2. CASE n = 1 BY <2>2, <1>1
  <2>3. CASE n = 2 BY <2>3, <1>1
  <2> QED BY <2>1, <2>2, <2>3
<1> QED BY <1>1, <1>2

(* An awaited packet shows the next move of the script and advances by it.  *)
LEMMA AwaitedIsNextMove ==
    ASSUME NEW g, GestureInv(g), NEW s \in Samples, ~s.pressed, Awaited(g, s),
           g.quadrature \in Quadratures
    PROVE  /\ MatchedBy(g) \in 0..10
           /\ MatchedBy(Advanced(g)) = MatchedBy(g) + 1
           /\ Promise!Shows(s, Promise!Script[MatchedBy(g) + 1])
<1> USE DEF Promise!Shows, Promise!At, Still
<1>1. CASE g.stage \in {"WaitEstopRelease", "WaitX10"}
  <2>1. MatchedBy(g) = 0 /\ Advanced(g).stage = "WaitX1"
    BY <1>1, MatchedValues, StageAfterValues
       DEF Advanced, GestureInv, Recovery, IdleStages
  <2>2. Promise!Shows(s, "X10")
    BY <1>1 DEF Awaited, ReleasedX10
  <2> QED BY <2>1, <2>2, MatchedValues, ScriptValues
<1>2. CASE g.stage = "WaitX1"
  <2>1. MatchedBy(g) = 1 /\ Advanced(g).stage = "WaitOff"
    BY <1>2, MatchedValues, StageAfterValues DEF Advanced, GestureInv, Recovery
  <2>2. Promise!Shows(s, "X1")
    BY <1>2 DEF Awaited, ReleasedX1
  <2> QED BY <2>1, <2>2, MatchedValues, ScriptValues
<1>3. CASE g.stage = "WaitOff"
  <2>1. MatchedBy(g) = 2 /\ Advanced(g).stage = "WaitClockwise"
    BY <1>3, MatchedValues, StageAfterValues DEF Advanced, GestureInv, Recovery
  <2>2. Promise!Shows(s, "Off")
    BY <1>3 DEF Awaited, ReleasedOff
  <2> QED BY <2>1, <2>2, MatchedValues, ScriptValues
<1>4. CASE g.stage = "WaitClockwise"
  <2>1. MatchedBy(g) = 3 /\ Advanced(g).stage = "WaitCounterclockwise"
    BY <1>4, MatchedValues, StageAfterValues DEF Advanced, GestureInv, Recovery
  <2>2. Promise!Shows(s, "Clockwise")
    BY <1>4 DEF Awaited, ReleasedOff
  <2> QED BY <2>1, <2>2, MatchedValues, ScriptValues
<1>5. CASE g.stage = "WaitCounterclockwise"
  <2>1. /\ MatchedBy(g) = 4 /\ Advanced(g).stage = "WaitButtonPress"
        /\ Advanced(g).clicks = 0
    BY <1>5, MatchedValues, StageAfterValues
       DEF Advanced, GestureInv, Recovery, EarlyStages
  <2>2. Promise!Shows(s, "Counterclockwise")
    BY <1>5 DEF Awaited, ReleasedOff
  <2> QED BY <2>1, <2>2, MatchedValues, ScriptValues
<1>6. CASE g.stage = "WaitButtonPress"
  <2>1. /\ MatchedBy(g) = 5 + 2 * g.clicks /\ g.clicks \in 0..2
        /\ Advanced(g).stage = "WaitButtonRelease"
        /\ Advanced(g).clicks = g.clicks
    BY <1>6, MatchedValues, StageAfterValues DEF Advanced, GestureInv, Recovery
  <2>2. MatchedBy(Advanced(g)) = 6 + 2 * g.clicks
    BY <2>1, MatchedValues
  <2>3. Promise!Shows(s, "Press")
    BY <1>6 DEF Awaited, OffX1ButtonHeld
  <2>4. MatchedBy(g) + 1 = 6 + 2 * g.clicks
    BY <2>1
  <2>5. Promise!Script[MatchedBy(g) + 1] = "Press"
    BY <2>1, <2>4, ScriptValues
  <2>6. MatchedBy(g) \in 0..10
    BY <2>1
  <2> HIDE DEF Promise!Shows
  <2> QED BY <2>2, <2>3, <2>4, <2>5, <2>6
<1>7. CASE g.stage = "WaitButtonRelease"
  <2>1. MatchedBy(g) = 6 + 2 * g.clicks /\ g.clicks \in 0..2
    BY <1>7, MatchedValues DEF GestureInv
  <2>2. /\ Advanced(g).stage \in {"WaitButtonPress", "CompletePending"}
        /\ Advanced(g).clicks = g.clicks + 1
    BY <1>7 DEF Advanced, GestureInv, Recovery
  <2>3. MatchedBy(Advanced(g)) = 5 + 2 * (g.clicks + 1)
    BY <2>2, MatchedValues
  <2>4. Promise!Shows(s, "Release")
    BY <1>7 DEF Awaited, ReleasedOff
  <2>5. MatchedBy(g) + 1 = 7 + 2 * g.clicks
    BY <2>1
  <2>6. Promise!Script[MatchedBy(g) + 1] = "Release"
    BY <2>1, <2>5, ScriptValues
  <2>7. MatchedBy(g) \in 0..10 /\ 5 + 2 * (g.clicks + 1) = MatchedBy(g) + 1
    BY <2>1
  <2> HIDE DEF Promise!Shows
  <2> QED BY <2>3, <2>4, <2>6, <2>7
<1> QED
  BY <1>1, <1>2, <1>3, <1>4, <1>5, <1>6, <1>7 DEF Awaited
(* Matched counts the moves made under the held error counter.              *)
LEMMA MatchedMeansCounted ==
    ASSUME NEW g, GestureInv(g), MatchedBy(g) > 0, NEW q \in Quadratures,
           g.quadrature = None \/ g.quadrature = q
    PROVE  g.quadrature = q
BY MatchedValues, SampleAssumption DEF GestureInv

LEMMA DropsFromStart ==
    ASSUME NEW s \in Samples
    PROVE  /\ MatchedBy(Engaged(s)) = 0 /\ MatchedBy(Restarted(s)) = 0
           /\ MatchedBy(InactiveRecovery) = 0
BY MatchedValues DEF Engaged, Restarted, InactiveRecovery, IdleStages

(* process() matches the next move, holds, or drops the whole gesture.      *)
LEMMA ProcessFollowsScript ==
    ASSUME IInv, NEW s \in Samples, Process(s)
    PROVE  Promise!Next
<1> USE DEF Process, Matched, IInv
<1>1. CASE ~RecoveryActive(recovery) /\ Processed(recovery, s) = recovery
  <2>1. MatchedBy(recovery) = 0
    BY <1>1, MatchedValues DEF RecoveryActive, IdleStages
  <2> QED BY <1>1, <2>1 DEF Promise!Next, Promise!Drop
<1>2. CASE Processed(recovery, s) \in {Engaged(s), Restarted(s)}
  BY <1>2, DropsFromStart, SampleType DEF Promise!Next, Promise!Drop
<1>3. CASE /\ RecoveryActive(recovery) /\ ~s.pressed
           /\ recovery.quadrature = None \/ recovery.quadrature = s.quadrature
           /\ Awaited(Counted(recovery, s), s)
           /\ Processed(recovery, s) = Advanced(Counted(recovery, s))
  <2> DEFINE h == Counted(recovery, s)
  <2>1. /\ GestureInv(h) /\ h.quadrature = s.quadrature
        /\ h.stage = recovery.stage /\ h.clicks = recovery.clicks
        /\ h.quadrature \in Quadratures
    BY CountedKeepsInv, SampleType
  <2>2. MatchedBy(h) = MatchedBy(recovery)
    BY <2>1 DEF MatchedBy
  <2>3. /\ MatchedBy(h) \in 0..10
        /\ MatchedBy(Advanced(h)) = MatchedBy(h) + 1
        /\ Promise!Shows(s, Promise!Script[MatchedBy(h) + 1])
    BY <1>3, <2>1, AwaitedIsNextMove, SampleType
  <2>4. Advanced(h).quadrature = s.quadrature
    BY <1>3, <2>1, AdvancedKeepsInv, SampleType
  <2>5. MatchedBy(recovery) > 0 => s.quadrature = recovery.quadrature
    BY <1>3, <2>1, MatchedMeansCounted
  <2> HIDE DEF h
  <2>6. Promise!Match
    <3>1. packet' = s /\ s # None
      BY SampleType
    <3>2. recovery' = Advanced(h)
      BY <1>3 DEF h
    <3>3. Matched' = Matched + 1 /\ Matched < Len(Promise!Script)
      BY <2>2, <2>3, <3>2, ScriptValues
    <3>4. Promise!Shows(packet', Promise!Script[Matched'])
      BY <2>2, <2>3, <3>1, <3>3
    <3>5. recovery'.quadrature = s.quadrature
      BY <2>4, <3>2
    <3> HIDE DEF Process, Matched, IInv
    <3>6. Matched > 0 => recovery'.quadrature = recovery.quadrature
      BY <2>5, <3>5 DEF Matched
    <3> QED BY <3>1, <3>3, <3>4, <3>5, <3>6 DEF Promise!Match
  <2> QED BY <2>6 DEF Promise!Next
<1>4. CASE /\ RecoveryActive(recovery) /\ ~s.pressed
           /\ recovery.quadrature = None \/ recovery.quadrature = s.quadrature
           /\ Processed(recovery, s) = Counted(recovery, s)
  <2>1. /\ Counted(recovery, s).quadrature = s.quadrature
        /\ Counted(recovery, s).stage = recovery.stage
        /\ Counted(recovery, s).clicks = recovery.clicks
        /\ s.quadrature \in Quadratures
    BY CountedKeepsInv, SampleType
  <2>2. MatchedBy(Counted(recovery, s)) = MatchedBy(recovery)
    BY <2>1 DEF MatchedBy
  <2>3. MatchedBy(recovery) > 0 => s.quadrature = recovery.quadrature
    BY <1>4, <2>1, MatchedMeansCounted
  <2>4. recovery'.quadrature = s.quadrature /\ Matched' = Matched /\ packet' = s
    BY <1>4, <2>1, <2>2
  <2> QED
    BY <1>4, <2>3, <2>4 DEF Promise!Next, Promise!Hold
<1> QED BY <1>1, <1>2, <1>3, <1>4, ProcessedCases, SampleType

LEMMA InitFollowsScript == Init => Promise!Init
<1>1. MatchedBy(InactiveRecovery) = 0
  BY MatchedValues DEF InactiveRecovery, IdleStages
<1> QED BY <1>1 DEF Init, Promise!Init, Matched, InactiveRecovery

LEMMA NextFollowsScript == IInv /\ [Next]_vars => [Promise!Next]_(Promise!vars)
<1> SUFFICES ASSUME IInv, [Next]_vars PROVE [Promise!Next]_(Promise!vars)
  OBVIOUS
<1>1. ASSUME NEW s \in Samples, Engage(s) \/ Restart(s) PROVE Promise!Next
  BY <1>1, DropsFromStart, SampleType
     DEF Engage, Restart, Matched, Promise!Next, Promise!Drop
<1>2. ASSUME NEW s \in Samples, Process(s) PROVE Promise!Next
  BY <1>2, ProcessFollowsScript
<1>3. CASE AcceptUnlock
  <2>1. MatchedBy(InactiveRecovery) = 0
    BY MatchedValues DEF InactiveRecovery, IdleStages
  <2> QED
    BY <1>3, <2>1 DEF AcceptUnlock, Matched, Promise!Next, Promise!Drop
<1>4. CASE UNCHANGED vars
  BY <1>4 DEF vars, Promise!vars, Matched
<1> QED BY <1>1, <1>2, <1>3, <1>4 DEF Next

(* README.md 193-197: for every set of packets the decoder may send, in any *)
(* order and with the supervisor's calls in between, the automaton only     *)
(* counts the scripted moves, in order, under one error counter.            *)
THEOREM FollowsScript == Spec => ScriptIsFollowed
<1>1. IInv /\ IInv' /\ [Next]_vars => [Promise!Next]_(Promise!vars)
  BY NextFollowsScript
<1> QED
  BY <1>1, InitFollowsScript, IInvariance, PTL
     DEF Spec, ScriptIsFollowed, Promise!Spec

(* recovery.rs process(): an unlock is only ever requested by the packet    *)
(* that shows the last move of the script, with all the others before it    *)
(* under the same error counter.                                            *)
THEOREM UnlockIsEarned == Spec => UnlockNeedsTheWholeScript
<1> DEFINE Earned ==
        unlock' => /\ Matched = Len(Promise!Script) - 1
                   /\ Matched' = Len(Promise!Script)
                   /\ packet'.quadrature = recovery.quadrature
<1>1. IInv /\ [Next]_vars => [Earned]_vars
  <2> SUFFICES ASSUME IInv, Next, unlock' PROVE Earned
    OBVIOUS
  <2>1. PICK s \in Samples : Process(s)
    BY DEF Next, Engage, Restart, AcceptUnlock
  <2>2. Processed(recovery, s).stage = "CompletePending"
    BY <2>1 DEF Process, UnlockRequested
  <2>3. recovery.stage # "CompletePending"
    BY <2>1 DEF Process, UnlockRequested
  <2>4. Promise!Next
    BY <2>1, ProcessFollowsScript
  <2>5. GestureInv(recovery) /\ GestureInv(recovery')
    BY NextIInv DEF IInv
  <2>6. Matched' = 11
    BY <2>1, <2>2, <2>5, MatchedValues DEF Process, GestureInv, Matched
  <2>7. Matched \in 0..10
    <3>1. recovery.stage \in Stages
      BY <2>5 DEF GestureInv, Recovery
    <3> QED
      BY <2>3, <2>5, <3>1, MatchedValues
         DEF Matched, GestureInv, Stages, IdleStages
  <2>8. Promise!Match
    BY <2>4, <2>6, <2>7 DEF Promise!Next, Promise!Hold, Promise!Drop
  <2> QED
    BY <2>6, <2>7, <2>8, ScriptValues DEF Promise!Match
<1> QED
  BY <1>1, IInvariance, PTL DEF Spec, UnlockNeedsTheWholeScript
===============================================================================
