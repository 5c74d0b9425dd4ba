------------------------------ MODULE ToolSetter ------------------------------
(***************************************************************************)
(* The tool setter's overtravel latch (tool_setter.rs, hal/tool_setter.rs) *)
(* among the parties it shares the servo cycle with: the controller behind *)
(* it in the cycle, LinuxCNC's task, HALUI, and the operator, who may      *)
(* clear, reset, acknowledge and start programs at any moment.             *)
(* The status lamps, and last_sample that feeds them and the contact       *)
(* outputs, are left out. The switch and the Mesa transport are whatever a *)
(* cycle finds them to be.                                                 *)
(***************************************************************************)
EXTENDS Integers

CONSTANTS RequestModulus,   \* Clear Fault requests stay below this (2^32)
          None

ASSUME SetterAssumption ==
  /\ RequestModulus \in Nat /\ RequestModulus >= 4
  /\ None \notin STRING

VARIABLES setter,       \* the policy and the request it has seen
          button,       \* CLEAR SETTER
          request,      \* clear-fault-request
          controller,   \* what the controller makes of requests and resets
          turn,         \* whose function is next in the servo thread
          pins,         \* feed inhibit and program abort
          task,         \* LinuxCNC's task, its published snapshot, its reset line
          halui,        \* the level of program.stop HALUI has last seen
          tripped,      \* a running program the latch has been seen to hold
          fresh         \* the button's press is yet to meet a pass that refuses it

environment == <<button, request, task, halui>>
vars == <<setter, controller, turn, pins, environment, tripped, fresh>>

Requests == 0 .. RequestModulus - 1
\* Of two open circuits the overtravel is what counts; None is a read that
\* cannot be used.
Samples == {"closed", "contactOpen", "overtravelOpen", None}
TaskStates == {"estop", "manual", "auto", "running"}

Running == task.state = "running"
\* motion.coord-mode
Coordinated == task.state \in {"auto", "running"}

(***************************************************************************)
(* The policy.                                                             *)
(***************************************************************************)
NewSetter == [latched |-> FALSE, clearHeld |-> FALSE, resetHeld |-> FALSE, request |-> 0]

\* manual is what the task's snapshot says, so it may be out of date.
StationaryBySnapshot(inPosition) ==
  task.fresh /\ task.published = "manual" /\ inPosition

ManualIdleStationary(inPosition) ==
  StationaryBySnapshot(inPosition) /\ ~Coordinated

ProgramActive == task.published \in {"running", None} \/ Coordinated

\* update() that takes the button's level for its edge.
UpdateOnLevel(s, sample, manualIdle, clearSetter, clearFault) ==
  LET latched == s.latched /\ ~(clearFault /\ ~s.resetHeld)
  IN  [latched |-> \/ sample = "overtravelOpen"
                   \/ latched /\ ~(sample = "closed" /\ manualIdle /\ clearSetter),
       clearHeld |-> clearSetter, resetHeld |-> clearFault, request |-> s.request]

Update(s, sample, manualIdle, clearSetter, clearFault) ==
  LET acknowledge == clearSetter /\ ~s.clearHeld
      latched == s.latched /\ ~(clearFault /\ ~s.resetHeld)
  IN  [latched |-> \/ sample = "overtravelOpen"
                   \/ latched /\ ~(sample = "closed" /\ manualIdle /\ acknowledge),
       clearHeld |-> clearSetter, resetHeld |-> clearFault, request |-> s.request]

\* The feed is held for a missing sample, for the latch, in the cycle that
\* clears it, and for as long as the controller keeps its gate closed.
InhibitWithoutRequest(s, sample, cleared) == s.latched \/ sample = None \/ ~controller.gate
FeedInhibit(s, sample, cleared) ==
  s.latched \/ sample = None \/ cleared \/ ~controller.gate

(***************************************************************************)
(* The servo thread: the setter's function, then the controller's.         *)
(***************************************************************************)
SetterPass ==
  /\ turn = "setter" /\ turn' = "controller"
  /\ \E inPosition \in BOOLEAN, sample \in Samples :
       LET cleared == request # setter.request
           before == [setter EXCEPT !.latched = @ /\ ~cleared, !.request = request]
           after == Update(before, sample, ManualIdleStationary(inPosition), button, task.reset)
       IN  /\ setter' = after
           /\ pins' = [feedInhibit |-> FeedInhibit(after, sample, cleared),
                       abort |-> after.latched /\ ProgramActive]
           /\ tripped' = (Running /\ (tripped \/ after.latched))
           /\ fresh' = (fresh /\ sample = "closed" /\ ManualIdleStationary(inPosition))
  /\ UNCHANGED <<controller, environment>>

\* All the controller does to the gate here: a new request closes it, a
\* reset edge may open it, and a fault or a press may close it at any time.
\* Its own recovery opens it only with the task in E-stop.
ControllerPass ==
  /\ turn = "controller" /\ turn' = "setter"
  /\ LET rising == task.reset /\ ~controller.resetHeld
     IN  \E gate \in BOOLEAN :
           /\ gate => \/ request = controller.ack /\ (controller.gate \/ rising)
                      \/ request = controller.ack /\ task.state = "estop"
           /\ controller' = [gate |-> gate, ack |-> request, resetHeld |-> task.reset]
  /\ UNCHANGED <<setter, pins, environment, tripped, fresh>>

(***************************************************************************)
(* Everybody else.                                                         *)
(***************************************************************************)
TurnButton ==
  /\ button' = ~button /\ fresh' = ~button
  /\ UNCHANGED <<setter, controller, turn, pins, request, task, halui, tripped>>

\* submit_clear(): the next number, and never zero.
NextRequest(number) == IF number = RequestModulus - 1 THEN 1 ELSE number + 1

\* Clear Fault, possibly between the two functions of a cycle. The bound: at
\* most one request between two that either of them has seen.
RequestClear ==
  /\ request \in {setter.request, controller.ack}
  /\ request' = NextRequest(request)
  /\ UNCHANGED <<setter, controller, turn, pins, button, task, halui, tripped, fresh>>

TaskStep(next) ==
  /\ task' = next
  /\ tripped' = (tripped /\ next.state = "running")
  /\ UNCHANGED <<setter, controller, turn, pins, button, request, halui, fresh>>

\* The operator's modes and programs. HALUI has caught up with the pin.
TaskMoves ==
  /\ task.state # "estop" /\ halui = pins.abort
  /\ \E next \in TaskStates \ {"estop", task.state} :
       /\ next = "running" => task.state = "auto"
       /\ task.state = "running" => next = "auto"
       /\ TaskStep([task EXCEPT !.state = next])

\* The task publishes its state, or its snapshots stop being news.
Publish == TaskStep([task EXCEPT !.published = task.state, !.fresh = TRUE])
GoStale == task.fresh /\ TaskStep([task EXCEPT !.fresh = FALSE])

\* The task polls its enable and aborts all programs when it is gone.
TaskEstops ==
  /\ ~controller.gate /\ task.state # "estop"
  /\ TaskStep([task EXCEPT !.state = "estop"])

\* An E-stop reset aborts programs too, and is a pulse of the reset line.
TaskResets ==
  /\ \/ ~task.reset /\ TaskStep([task EXCEPT !.reset = TRUE,
                                              !.state = IF @ = "running" THEN "auto" ELSE @])
     \/ task.reset /\ TaskStep([task EXCEPT !.reset = FALSE])

TaskLeavesEstop ==
  /\ task.state = "estop" /\ controller.gate
  /\ TaskStep([task EXCEPT !.state = "manual"])

\* HALUI takes program.stop on its rising edge.
HaluiPolls ==
  /\ halui # pins.abort /\ halui' = pins.abort
  /\ task' = IF pins.abort /\ Running THEN [task EXCEPT !.state = "auto"] ELSE task
  /\ tripped' = (tripped /\ task'.state = "running")
  /\ UNCHANGED <<setter, controller, turn, pins, button, request, fresh>>

Init ==
  /\ setter = NewSetter
  /\ controller = [gate |-> FALSE, ack |-> 0, resetHeld |-> FALSE]
  /\ turn = "setter"
  /\ pins = [feedInhibit |-> TRUE, abort |-> FALSE]
  /\ button = FALSE /\ request = 0 /\ halui = FALSE
  /\ task = [state |-> "estop", published |-> None, fresh |-> FALSE, reset |-> FALSE]
  /\ tripped = FALSE /\ fresh = FALSE

Next == \/ SetterPass \/ ControllerPass
        \/ TurnButton \/ RequestClear
        \/ TaskMoves \/ Publish \/ GoStale \/ TaskEstops \/ TaskResets \/ TaskLeavesEstop
        \/ HaluiPolls

Spec == Init /\ [][Next]_vars

\* The servo thread runs, the task polls its enable and HALUI its pins.
FairSpec ==
  /\ Spec
  /\ WF_vars(SetterPass) /\ WF_vars(ControllerPass)
  /\ WF_vars(TaskEstops) /\ WF_vars(HaluiPolls)

(***************************************************************************)
(* Properties.                                                             *)
(***************************************************************************)
TypeOK ==
  /\ setter \in [latched: BOOLEAN, clearHeld: BOOLEAN, resetHeld: BOOLEAN, request: Requests]
  /\ controller \in [gate: BOOLEAN, ack: Requests, resetHeld: BOOLEAN]
  /\ turn \in {"setter", "controller"}
  /\ pins \in [feedInhibit: BOOLEAN, abort: BOOLEAN]
  /\ button \in BOOLEAN /\ request \in Requests
  /\ halui \in BOOLEAN
  /\ task \in [state: TaskStates, published: TaskStates \cup {None}, fresh: BOOLEAN,
               reset: BOOLEAN]
  /\ tripped \in BOOLEAN /\ fresh \in BOOLEAN

\* A program that has run into the latch gets no feed for as long as it runs,
\* even when the latch is cleared under it: by a request while it runs, by a
\* reset pulse, with any delay of the task ("clearing a latch cannot resume a
\* task", hal/tool_setter.rs).
FeedWaitsForTheProgram == tripped => pins.feedInhibit

\* The latch ends with Clear Fault, with a reset pulse, or with a press of
\* CLEAR SETTER that no pass has refused before (docs/tool-setter.md: "A
\* press made before these conditions is not queued for later").
AcknowledgementIsFresh ==
  [][setter.latched /\ ~setter'.latched =>
       \/ request # setter.request
       \/ task.reset /\ ~setter.resetHeld
       \/ button /\ fresh]_vars

\* A stop that HALUI has yet to take reaches the program: what withdraws the
\* pin before HALUI has seen it stops the program by itself.
AbortsArrive == (pins.abort /\ ~halui /\ Running) ~> ~Running
===============================================================================
