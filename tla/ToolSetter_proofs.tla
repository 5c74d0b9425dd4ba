-------------------------- MODULE ToolSetter_proofs --------------------------
(***************************************************************************)
(* A program that has run into the latch stays without feed, for any       *)
(* number of requests.                                                     *)
(***************************************************************************)
EXTENDS ToolSetter, TLAPS

\* How far the three places a request is seen at may be apart.
Follows(later, earlier) == later \in {earlier, NextRequest(earlier)}

RequestsAreNear ==
  IF turn = "setter"
  THEN /\ Follows(controller.ack, setter.request) /\ Follows(request, controller.ack)
       /\ controller.ack # setter.request => ~controller.gate
  ELSE /\ Follows(setter.request, controller.ack) /\ Follows(request, setter.request)

\* What keeps the feed from a tripped program: the latch, the gate, or a
\* request the controller is about to close the gate for. No reset has been
\* raised since the program was tripped, so none is about to open it.
TrippedIsHeld ==
  tripped =>
    /\ Running /\ pins.feedInhibit
    /\ \/ setter.latched \/ ~controller.gate
       \/ turn = "controller" /\ controller.ack # request
    /\ task.reset => setter.resetHeld
    /\ task.reset /\ (turn = "setter" \/ ~setter.latched) => controller.resetHeld

SetterInv == TypeOK /\ RequestsAreNear /\ TrippedIsHeld

-----------------------------------------------------------------------------
LEMMA NextRequestAdvances ==
  ASSUME NEW r \in Requests
  PROVE  /\ NextRequest(r) \in Requests /\ NextRequest(r) # r
         /\ NextRequest(NextRequest(r)) # r
BY SetterAssumption DEF Requests, NextRequest

LEMMA InitEstablishes == Init => SetterInv
<1> SUFFICES ASSUME Init PROVE SetterInv
  OBVIOUS
<1> 0 \in Requests
  BY SetterAssumption DEF Requests
<1> QED
  BY DEF Init, SetterInv, TypeOK, RequestsAreNear, TrippedIsHeld, Follows, NewSetter,
         TaskStates, Running

\* The policy's latch, by cases.
LEMMA UpdateIs ==
  ASSUME NEW s \in [latched: BOOLEAN, clearHeld: BOOLEAN, resetHeld: BOOLEAN,
                    request: Requests],
         NEW sample \in Samples, NEW manualIdle \in BOOLEAN, NEW clearSetter \in BOOLEAN,
         NEW clearFault \in BOOLEAN
  PROVE  LET after == Update(s, sample, manualIdle, clearSetter, clearFault)
         IN  /\ after \in [latched: BOOLEAN, clearHeld: BOOLEAN, resetHeld: BOOLEAN,
                           request: Requests]
             /\ after.request = s.request /\ after.resetHeld = clearFault
             /\ s.latched /\ ~after.latched => manualIdle \/ (clearFault /\ ~s.resetHeld)
<1> DEFINE latched == \/ sample = "overtravelOpen"
                      \/ /\ s.latched /\ ~(clearFault /\ ~s.resetHeld)
                         /\ ~(sample = "closed" /\ manualIdle /\ clearSetter /\ ~s.clearHeld)
<1>1. Update(s, sample, manualIdle, clearSetter, clearFault) =
        [latched |-> latched, clearHeld |-> clearSetter, resetHeld |-> clearFault,
         request |-> s.request]
  BY Zenon DEF Update
<1>2. latched \in BOOLEAN /\ s.request \in Requests
  OBVIOUS
<1>3. s.latched /\ ~latched => manualIdle \/ (clearFault /\ ~s.resetHeld)
  OBVIOUS
<1> HIDE DEF latched
<1> QED
  BY <1>1, <1>2, <1>3

LEMMA SetterPassPreserves == SetterInv /\ SetterPass => SetterInv'
<1> SUFFICES ASSUME SetterInv, SetterPass PROVE SetterInv'
  OBVIOUS
<1> USE DEF SetterInv
<1>1. PICK inPosition \in BOOLEAN, sample \in Samples :
        LET cleared == request # setter.request
            before == [setter EXCEPT !.latched = @ /\ ~cleared, !.request = request]
            after == Update(before, sample, ManualIdleStationary(inPosition), button, task.reset)
        IN  /\ setter' = after
            /\ pins' = [feedInhibit |-> FeedInhibit(after, sample, cleared),
                        abort |-> after.latched /\ ProgramActive]
            /\ tripped' = (Running /\ (tripped \/ after.latched))
            /\ fresh' = (fresh /\ sample = "closed" /\ ManualIdleStationary(inPosition))
  BY DEF SetterPass
<1> DEFINE cleared == request # setter.request
           before == [setter EXCEPT !.latched = @ /\ ~cleared, !.request = request]
           manualIdle == ManualIdleStationary(inPosition)
<1>2. /\ before \in [latched: BOOLEAN, clearHeld: BOOLEAN, resetHeld: BOOLEAN,
                     request: Requests]
      /\ before.request = request /\ before.resetHeld = setter.resetHeld
      /\ before.latched = (setter.latched /\ ~cleared)
  BY DEF TypeOK
<1>3. manualIdle \in BOOLEAN /\ (manualIdle => ~Running)
  BY DEF ManualIdleStationary, StationaryBySnapshot, Coordinated, Running, TypeOK
<1>4. button \in BOOLEAN /\ task.reset \in BOOLEAN
  BY DEF TypeOK
<1> HIDE DEF cleared, before, manualIdle
<1>5. setter' = Update(before, sample, manualIdle, button, task.reset)
  BY <1>1 DEF cleared, before, manualIdle
<1>6. /\ setter' \in [latched: BOOLEAN, clearHeld: BOOLEAN, resetHeld: BOOLEAN,
                      request: Requests]
      /\ setter'.request = request /\ setter'.resetHeld = task.reset
      /\ before.latched /\ ~setter'.latched => manualIdle \/ (task.reset /\ ~setter.resetHeld)
  BY <1>2, <1>3, <1>4, <1>5, UpdateIs
<1>7. /\ pins' = [feedInhibit |-> FeedInhibit(setter', sample, cleared),
                  abort |-> setter'.latched /\ ProgramActive]
      /\ tripped' = (Running /\ (tripped \/ setter'.latched))
      /\ fresh' = (fresh /\ sample = "closed" /\ manualIdle)
  BY <1>1, <1>5 DEF cleared, before, manualIdle
<1>8. UNCHANGED <<controller, button, request, task, halui>> /\ turn = "setter"
      /\ turn' = "controller"
  BY DEF SetterPass, environment
<1>9. TypeOK'
  <2>1. pins' \in [feedInhibit: BOOLEAN, abort: BOOLEAN]
    BY <1>6, <1>7 DEF TypeOK, FeedInhibit, ProgramActive, Coordinated, cleared
  <2> QED
    BY <2>1, <1>3, <1>6, <1>7, <1>8 DEF TypeOK, Running
<1>10. RequestsAreNear'
  BY <1>6, <1>8 DEF RequestsAreNear, Follows
<1>11. TrippedIsHeld'
  <2> SUFFICES ASSUME tripped' PROVE TrippedIsHeld'
    BY DEF TrippedIsHeld
  <2>1. Running /\ Running'
    BY <1>7, <1>8 DEF Running
  <2>2. CASE setter'.latched
    BY <2>1, <2>2, <1>6, <1>7, <1>8 DEF TrippedIsHeld, FeedInhibit
  <2>3. CASE ~setter'.latched
    <3>1. tripped
      BY <2>3, <1>7
    <3>2. ~manualIdle /\ (task.reset => setter.resetHeld /\ controller.resetHeld)
      BY <3>1, <2>1, <1>3, <1>8 DEF TrippedIsHeld
    <3>3. ~before.latched
      BY <3>2, <2>3, <1>6
    <3>4. \/ ~controller.gate
          \/ cleared /\ controller.ack # request
      BY <3>1, <3>3, <1>2, <1>8 DEF TrippedIsHeld, RequestsAreNear, cleared
    <3>5. pins'.feedInhibit
      BY <3>4, <1>7 DEF FeedInhibit
    <3> QED
      BY <3>2, <3>4, <3>5, <2>1, <1>6, <1>8 DEF TrippedIsHeld
  <2> QED
    BY <2>2, <2>3
<1> QED
  BY <1>9, <1>10, <1>11

LEMMA ControllerPassPreserves == SetterInv /\ ControllerPass => SetterInv'
<1> SUFFICES ASSUME SetterInv, ControllerPass PROVE SetterInv'
  OBVIOUS
<1> USE DEF SetterInv
<1>1. PICK gate \in BOOLEAN :
        /\ gate => /\ request = controller.ack
                   /\ controller.gate \/ (task.reset /\ ~controller.resetHeld)
                                      \/ task.state = "estop"
        /\ controller' = [gate |-> gate, ack |-> request, resetHeld |-> task.reset]
  BY DEF ControllerPass
<1>2. UNCHANGED <<setter, pins, button, request, task, halui, tripped, fresh>>
      /\ turn = "controller" /\ turn' = "setter"
  BY DEF ControllerPass, environment
<1>3. TypeOK'
  BY <1>1, <1>2 DEF TypeOK
<1>4. RequestsAreNear'
  <2>1. controller.ack \in Requests
    BY DEF TypeOK
  <2>2. gate => setter.request = request
    BY <1>1, <1>2, <2>1, NextRequestAdvances DEF RequestsAreNear, Follows
  <2> QED
    BY <1>1, <1>2, <2>2 DEF RequestsAreNear, Follows
<1>5. TrippedIsHeld'
  BY <1>1, <1>2 DEF TrippedIsHeld, Running
<1> QED
  BY <1>3, <1>4, <1>5

LEMMA RequestPreserves == SetterInv /\ RequestClear => SetterInv'
<1> SUFFICES ASSUME SetterInv, RequestClear PROVE SetterInv'
  OBVIOUS
<1> USE DEF SetterInv, RequestClear
<1>1. request' \in Requests /\ request' = NextRequest(request)
  BY NextRequestAdvances DEF TypeOK
<1>2. TypeOK'
  BY <1>1 DEF TypeOK
<1>3. RequestsAreNear'
  BY <1>1 DEF RequestsAreNear, Follows
<1>4. TrippedIsHeld'
  <2>1. setter.request \in Requests /\ controller.ack \in Requests
    BY DEF TypeOK
  <2>2. turn = "controller" /\ ~setter.latched /\ tripped /\ controller.gate
          => controller.ack # NextRequest(request)
    BY <2>1, NextRequestAdvances DEF TrippedIsHeld, RequestsAreNear, Follows
  <2> QED
    BY <1>1, <2>2 DEF TrippedIsHeld, Running
<1> QED
  BY <1>2, <1>3, <1>4

TaskRecords == [state: TaskStates, published: TaskStates \cup {None}, fresh: BOOLEAN,
                reset: BOOLEAN]

\* A step of the task that starts no program under a tripped latch and raises
\* no reset under a running one.
LEMMA TaskStepPreserves ==
  ASSUME NEW next \in TaskRecords, SetterInv,
         next.reset => task.reset \/ next.state # "running",
         next.state = "running" /\ tripped => Running,
         task' = next, tripped' = (tripped /\ next.state = "running"),
         UNCHANGED <<setter, controller, turn, pins, button, request, fresh>>,
         halui' \in BOOLEAN
  PROVE  SetterInv'
<1> USE DEF SetterInv
<1>1. TypeOK'
  BY DEF TypeOK, TaskRecords
<1>2. RequestsAreNear'
  BY DEF RequestsAreNear
<1>3. TrippedIsHeld'
  BY DEF TrippedIsHeld, Running
<1> QED
  BY <1>1, <1>2, <1>3

LEMMA NextPreserves == SetterInv /\ [Next]_vars => SetterInv'
<1> SUFFICES ASSUME SetterInv, [Next]_vars PROVE SetterInv'
  OBVIOUS
<1>0. /\ task \in TaskRecords /\ halui \in BOOLEAN /\ pins.abort \in BOOLEAN
      /\ tripped => Running
  BY DEF SetterInv, TypeOK, TaskRecords, TrippedIsHeld
<1> DEFINE Same == UNCHANGED <<setter, controller, turn, pins, button, request, fresh>>
<1>1. CASE SetterPass
  BY <1>1, SetterPassPreserves
<1>2. CASE ControllerPass
  BY <1>2, ControllerPassPreserves
<1>3. CASE RequestClear
  BY <1>3, RequestPreserves
<1>4. CASE TurnButton
  BY <1>4 DEF TurnButton, SetterInv, TypeOK, RequestsAreNear, TrippedIsHeld, Running
<1>5. CASE TaskMoves
  <2>1. PICK state \in TaskStates \ {"estop", task.state} :
          TaskStep([task EXCEPT !.state = state])
    BY <1>5 DEF TaskMoves
  <2> DEFINE next == [task EXCEPT !.state = state]
  <2>2. next \in TaskRecords /\ next.state = state /\ next.reset = task.reset
    BY <1>0 DEF TaskRecords
  <2> HIDE DEF next
  <2> QED
    BY <2>1, <2>2, <1>0, TaskStepPreserves DEF TaskStep, next
<1>6. CASE Publish \/ GoStale
  <2>1. PICK next \in TaskRecords :
          TaskStep(next) /\ next.state = task.state /\ next.reset = task.reset
    <3>1. CASE Publish
      <4> DEFINE next == [task EXCEPT !.published = task.state, !.fresh = TRUE]
      <4>1. next \in TaskRecords /\ next.state = task.state /\ next.reset = task.reset
        BY <1>0 DEF TaskRecords
      <4> QED
        BY <3>1, <4>1 DEF Publish
    <3>2. CASE GoStale
      <4> DEFINE next == [task EXCEPT !.fresh = FALSE]
      <4>1. next \in TaskRecords /\ next.state = task.state /\ next.reset = task.reset
        BY <1>0 DEF TaskRecords
      <4> QED
        BY <3>2, <4>1 DEF GoStale
    <3> QED
      BY <1>6, <3>1, <3>2
  <2> QED
    BY <2>1, <1>0, TaskStepPreserves DEF TaskStep, Running
<1>7. CASE TaskEstops \/ TaskLeavesEstop
  <2>1. PICK state \in {"estop", "manual"} : TaskStep([task EXCEPT !.state = state])
    BY <1>7 DEF TaskEstops, TaskLeavesEstop
  <2> DEFINE next == [task EXCEPT !.state = state]
  <2>2. next \in TaskRecords /\ next.state = state /\ next.reset = task.reset
    BY <1>0 DEF TaskRecords, TaskStates
  <2> HIDE DEF next
  <2> QED
    BY <2>1, <2>2, <1>0, TaskStepPreserves DEF TaskStep, next
<1>8. CASE TaskResets
  <2>1. PICK next \in TaskRecords :
          /\ TaskStep(next)
          /\ next.reset => next.state # "running"
          /\ next.state = "running" => Running
    <3> DEFINE aborted == IF task.state = "running" THEN "auto" ELSE task.state
               raised == [task EXCEPT !.reset = TRUE, !.state = aborted]
               lowered == [task EXCEPT !.reset = FALSE]
    <3>1. aborted \in TaskStates /\ aborted # "running"
      BY <1>0 DEF TaskStates, TaskRecords
    <3>2. TaskStep(raised) \/ TaskStep(lowered)
      BY <1>8 DEF TaskResets
    <3> HIDE DEF aborted
    <3>3. raised \in TaskRecords /\ raised.state = aborted
      BY <3>1, <1>0 DEF TaskRecords
    <3>4. lowered \in TaskRecords /\ lowered.state = task.state /\ lowered.reset = FALSE
      BY <1>0 DEF TaskRecords
    <3> QED
      BY <3>1, <3>2, <3>3, <3>4 DEF Running
  <2> QED
    BY <2>1, <1>0, TaskStepPreserves DEF TaskStep
<1>9. CASE HaluiPolls
  <2> DEFINE stopped == [task EXCEPT !.state = "auto"]
  <2>1. /\ stopped \in TaskRecords
        /\ stopped.state = "auto" /\ stopped.reset = task.reset
    BY <1>0 DEF TaskRecords, TaskStates
  <2> HIDE DEF stopped
  <2>2. PICK next \in TaskRecords :
          /\ task' = next /\ tripped' = (tripped /\ next.state = "running")
          /\ next.reset = task.reset /\ (next.state = "running" => Running)
    BY <2>1, <1>0, <1>9 DEF HaluiPolls, stopped, Running
  <2>3. halui' \in BOOLEAN /\ Same
    BY <1>0, <1>9 DEF HaluiPolls
  <2> QED
    BY <2>2, <2>3, TaskStepPreserves
<1>10. CASE UNCHANGED vars
  BY <1>10 DEF vars, environment, SetterInv, TypeOK, RequestsAreNear, TrippedIsHeld, Running
<1> QED
  BY <1>1, <1>2, <1>3, <1>4, <1>5, <1>6, <1>7, <1>8, <1>9, <1>10 DEF Next

\* For any number of requests, a program the latch has stopped is never fed
\* again: not by a request that clears the latch, not by a reset.
THEOREM FeedWaits == Spec => []FeedWaitsForTheProgram
<1>1. SetterInv => FeedWaitsForTheProgram
  BY DEF SetterInv, TrippedIsHeld, FeedWaitsForTheProgram
<1> QED
  BY <1>1, InitEstablishes, NextPreserves, PTL DEF Spec

-----------------------------------------------------------------------------
\* A press the setter has not looked at is one no pass has refused.
UnseenIsFresh == button /\ ~setter.clearHeld => fresh

LEMMA UnseenPreserved == SetterInv /\ UnseenIsFresh /\ [Next]_vars => UnseenIsFresh'
<1> SUFFICES ASSUME SetterInv, UnseenIsFresh, [Next]_vars PROVE UnseenIsFresh'
  OBVIOUS
<1>1. CASE SetterPass
  <2>1. setter'.clearHeld = button /\ button' = button
    BY <1>1 DEF SetterPass, Update, environment
  <2> QED
    BY <2>1 DEF UnseenIsFresh
<1>2. CASE TurnButton
  BY <1>2 DEF TurnButton, UnseenIsFresh
<1>3. CASE UNCHANGED <<setter, button, fresh>>
  BY <1>3 DEF UnseenIsFresh
<1> QED
  BY <1>1, <1>2, <1>3 DEF Next, vars, environment, ControllerPass, RequestClear, TaskMoves,
     Publish, GoStale, TaskEstops, TaskResets, TaskLeavesEstop, TaskStep, HaluiPolls

LEMMA ReleaseIsFresh ==
  SetterInv /\ UnseenIsFresh /\ [Next]_vars =>
    (setter.latched /\ ~setter'.latched =>
       \/ request # setter.request
       \/ task.reset /\ ~setter.resetHeld
       \/ button /\ fresh)
<1> SUFFICES ASSUME SetterInv, UnseenIsFresh, [Next]_vars, setter.latched, ~setter'.latched,
                    request = setter.request, ~(task.reset /\ ~setter.resetHeld)
             PROVE  button /\ fresh
  OBVIOUS
<1>1. CASE SetterPass
  <2>1. PICK inPosition \in BOOLEAN, sample \in Samples :
          setter' = Update([setter EXCEPT !.latched = @ /\ TRUE, !.request = request], sample,
                           ManualIdleStationary(inPosition), button, task.reset)
    BY <1>1 DEF SetterPass
  <2> DEFINE before == [setter EXCEPT !.latched = @ /\ TRUE, !.request = request]
  <2>2. /\ before.latched /\ before.clearHeld = setter.clearHeld
        /\ before.resetHeld = setter.resetHeld
    BY DEF SetterInv, TypeOK
  <2> HIDE DEF before
  <2>3. setter'.latched =
          (\/ sample = "overtravelOpen"
           \/ /\ before.latched /\ ~(task.reset /\ ~before.resetHeld)
              /\ ~(/\ sample = "closed" /\ ManualIdleStationary(inPosition)
                   /\ button /\ ~before.clearHeld))
    BY <2>1, Zenon DEF Update, before
  <2>4. button /\ ~setter.clearHeld
    BY <2>2, <2>3
  <2> QED
    BY <2>4 DEF UnseenIsFresh
<1>2. CASE UNCHANGED setter
  BY <1>2
<1> QED
  BY <1>1, <1>2 DEF Next, vars, environment, ControllerPass, RequestClear, TaskMoves, TurnButton,
     Publish, GoStale, TaskEstops, TaskResets, TaskLeavesEstop, TaskStep, HaluiPolls

\* For any number of requests, the latch of an overtravel ends only with Clear
\* Fault, a reset pulse, or a press of CLEAR SETTER no pass has refused.
THEOREM Acknowledged == Spec => AcknowledgementIsFresh
<1>1. Init => UnseenIsFresh
  BY DEF Init, UnseenIsFresh
<1> QED
  BY <1>1, InitEstablishes, NextPreserves, UnseenPreserved, ReleaseIsFresh, PTL
     DEF Spec, AcknowledgementIsFresh
===============================================================================
