# A TLA+ model of the DMC2 pendant controller

This directory holds TLA+ modules for the control program of the DMC2 mill: the
realtime LinuxCNC component `dmc2-rt`, its logic `dmc2-core`, and the processes
around them: serial bridge, pendant decoder, task monitor and process supervisors. The modules are written from the Rust source. TLC checks them on small
instances and TLAPS checks the proofs about them. Paths such as `recovery.rs:110`
are relative to `src/rust/crates/dmc2-core/src/` unless another crate is named;
`controller/` is `supervisor/controller/` in that crate.

Contents: 1 the system, 2 the modules and how they follow the code, 3 what the
runs check, 4 bounds and fairness, 5 what is proved, 6 disagreements met,
7 what is not modelled, 8 the plan.

## 1. The system

A hand pendant (axis selector, multiplier, deadman, hand wheel, E-stop button) is
read by an Arduino Nano, whose packets a userspace *serial bridge* turns into HAL
pins. Every servo period the realtime component takes a snapshot of its pins,
runs `RuntimeController::update`, and publishes the result: an *external enable*
that gates LinuxCNC's E-stop chain, two request levels for HALUI (E-stop reset
and Machine On), wheel-jog counts for LinuxCNC motion, resets for the realtime
limit latches, and a heartbeat that a HAL watchdog supervises.

| Component | State it keeps | Operations | Speaks with |
|---|---|---|---|
| E-stop recovery gesture (`recovery.rs`) | stage, clicks seen, error-counter baseline | `engage`, `process`, `restart`, `accept_external_reset`, `restart_refused_unlock` | supervisor calls it with packets |
| Pendant interpreter (`pendant.rs`) | selection, arming, error baseline | `process`, `reset` | supervisor; yields a jog intent |
| Supervisor, power half (`controller/update.rs`, `recovery.rs`, `startup.rs`, `mod.rs`) | gate, requests, power step, restore flag, startup progress, fault | `update`, `fail`, `clear_latched_fault`, `begin_linuxcnc_estop_reset`, `observe_manual_probe_stop` | runtime calls it; HALUI and the latch answer through HAL |
| Supervisor, motion half (`controller/jog.rs`, `limits.rs`) | phase, active jog, pending intent, attributed switch, latch resets | handlers called by `update` | LinuxCNC wheel jog; limit latches |
| Runtime controller (`runtime.rs`) | freshness, link cache, reset edge, decoder-reset handshake, the two guards | `update`, `fail`, `observe_manual_probe_stop` | realtime component; bridge |
| Startup guards and heartbeat (`startup.rs`) | phase, elapsed time, attempts | `update`, `commit_runtime` | Mesa card, HAL watchdog |
| Motion channel (`motion.rs`) | scheduled increment, counts, rebase flag | `advance`, `accept`, `force_stop_immediate` | supervisor command in, LinuxCNC counts out |
| Realtime component (`dmc2-rt`) | pins, snapshot generations | one servo cycle | everything above |
| E-stop chain and power loop (`live/machine.hal`, `live/pendant.hal`, HALUI, task, iocontrol) | latch, Machine On, request edges, reset pulse | external | supervisor outputs, runtime inputs |
| Serial bridge (`dmc2-serial-bridge`) | connection, sequence, drops, quadrature fault, pending reset | packet, boot, garbled line, silence, port open and close, reset request | the Nano's decoder, runtime |
| Task monitor (`dmc2-task-monitor`) | published snapshot and generation; recordings, queue, saving thread | poll, publish; cut recordings, save, retry | LinuxCNC task, realtime component, AXIS, the file system |
| Probe stream (`dmc2-rt` `hal/probe.rs`) | recording, dropped frames, a bounded HAL stream | one capture per servo period | the task monitor's recording worker |
| Tool setter (`tool_setter.rs`, `hal/tool_setter.rs`) | overtravel latch, clears it has seen | `update` and its servo function | controller, task, HALUI, operator |
| Process supervisor (`dmc2-process-supervisor`) | the shared lifecycle journal; per process its wait; per session the children it knows, the root's status | open, lock, repair, append; spawn, wait; scan, name, reap | its children, the kernel, other supervisors |
| Launcher, `dmc2ctl`, HAL bindings, diagnostics, AXIS interface, G-code, installation | see section 7 | | |

What is hard in it:

* **Ordering inside a cycle.** `update()` is a chain of early returns over five
  groups of state. A handler may latch a fault after another has moved the gate, a
  request or a phase; whatever it forgets to drop survives the fault.
* **Sequences over many cycles.** The gesture has eleven moves; recovery, startup
  and the release of a limit switch are each several steps with their own
  timers, and presses, resets, clears, homing, probe contacts and mode switches
  cut into all of them.
* **A loop with no acknowledgement of its own.** Requests are levels that HALUI
  takes on their rising edge; they come back as a pulse shared with AXIS Reset and
  as a status that a userspace monitor publishes later.
* **A jog consumer that may refuse, delay or overrun** a command, and a switch
  that closes, opens and latches at any moment of it.
* **A link that loses, garbles and repeats,** whose sequence wraps, whose far end can
  restart at any time and whose button may go down in the silence.
* **Snapshots over many pins** of plain shared memory between processes, guarded by
  one generation number that wraps.
* **Kills, power losses and failing calls** inside a journal append or the saving of
  a recording, and retries of what may already have been done.
* **Processes that fork, are orphaned and hand their pids on** while the owner of the
  session looks at them one at a time.

What makes it correct, in one line each: a fault leaves nothing behind it; the
gate is open only when no recovery is outstanding; each request has an owner; the
machine is turned on only by the cold start or a completed gesture; the unlock is
earned by the whole gesture; a latch is held in reset only by the step that owns
the reset; increments need arming and, with a switch attributed, lead away from
it; reversals stop first; abandoned jogs are stopped; recovery and startup end.
Around the supervisor: a faulted guard always shows as a held fault; nothing the
supervisor left behind acts while it is not run; nothing starts on stale status;
a press keeps the gate closed; the watchdog is committed only after Machine On.
Further out: a press is reported whatever the link does; drops are counted exactly; a
snapshot is read whole or not at all; a program stopped by overtravel gets no feed
before it has ended; a record or a recording that was acknowledged stays; a session
ends with nobody left behind.

## 2. The modules

| Module | Models | State and correspondence |
|---|---|---|
| `PendantSample` | the packet as HAL presents it | `detent` is the latest detent, `advances` whether the counter moved; counts and feed rates are left out |
| `RecoverySequence` | `recovery.rs` | operators on the record `[stage, clicks, quadrature]`: `Engaged`, `Processed`, `Restarted`, `UnlockRequested`; one named stage per enum variant |
| `GestureScript` | what README.md promises of the gesture | the abstract specification: a script of moves and a count of those seen in order |
| `EstopGesture` | the gesture as a system of its own | one action per method of `EstopRecoverySequence`; `MatchedBy` maps stage and clicks to the number of moves seen |
| `PendantInterpreter` | `pendant.rs` | operators on the interpreter record; `Decision` is the outcome of `process` |
| `JogControl` | `jog.rs`, `limits.rs`, `feedback.rs` and the fault codes they latch | operators on the record `motion`, which a cycle passes from handler to handler as the Rust code passes `&mut self` |
| `PendantSupervisor` | the public operations of the supervisor | variables `link`, `startup`, `recovery`, `power`, `ready`, `motion` partition the Rust fields; `Update` has one disjunct per branch of `update()`, and each disjunct is a whole cycle, faults included |
| `SupervisorSafety` | nothing: the properties of the supervisor | |
| `StartupGuards` | `startup.rs`: Mesa guard and controller watchdog guard | operators on two records, one per Rust struct; a guard's `faulted` is its phase `Fault`, which only `fail()` enters and only a new guard leaves |
| `PendantRuntime` | `runtime.rs`, and `Freshness` of `lib.rs` | extends `PendantSupervisor` by the fields of `RuntimeController`; `RuntimeUpdate(f)` has one disjunct per way `update()` returns: `ClearFault`, `ClearByReset`, `Ordinary`. A changed counter (heartbeat, sequence, clear request) is a Boolean of the frame |
| `RuntimeSafety` | nothing: the properties of the runtime | |
| `MotionChannel` | `motion.rs` | operators on the channel record: counts by wheel (a motor and a jog path), the wheel that is enabled and its scale (`chunk`), phase, scheduled increment, `rebase`; the stop outputs are the phases `Stop` and `StopImmediate` |
| `ServoCycle` | `dmc2-rt/src/component/cycle.rs`: runtime and channel in one servo period | `Cycle(f)` is `update_component`: `Stepped` (advance or the stop of a clear), `WithReadiness` (line 25), `RuntimeUpdate`, `Accepted`. `ProbeStop`, the report of lines 22-24, is a step before the cycle, and `probed` says that its `update()` is still to come |
| `EstopChain` | `estop_latch`, HALUI, task, iocontrol, monitor | external; one action per party, from the nets of `live/machine.hal` and `live/pendant.hal` |
| `PowerLoop` | the supervisor, the runtime's reset edge, operator and button, in the loop through `EstopChain` | guards and watchdog are well throughout |
| `StartupLoop` | the whole runtime, the HAL watchdog and `EstopChain`, from power-up to commit | no press and no switch; losses and bites are bounded by `Lapses` |
| `AtomicSnapshot` | what a generation-guarded block of pins promises | the abstract specification: publish in one step, accept in one step |
| `SnapshotGeneration` | `read_pendant`, `refresh_task_snapshot` (`hal/transport.rs`), the bridge's and the monitor's publishers, `read_controller_fault_snapshot` | every pin access is a step; pins are read and written in any order; `held` is what the reader acts on |
| `SerialBridge` | `dmc2-serial-bridge/src/state.rs` | operators on the bridge's record, one per method: a packet, boot, garbled line, silence, disconnect, a reset and its acknowledgement; sequence arithmetic modulo the width |
| `PendantLink` | the bridge's loop (`application/mod.rs`), the decoder's reports (firmware), the runtime's side of the reset | a wire that loses, garbles and delays; a clock that ages the last packet |
| `ToolSetter` | `tool_setter.rs` and its servo function, with the controller behind it, task, HALUI and operator | `turn` orders the two functions of a cycle; everyone else comes between them |
| `SessionJournal` | `journal/mod.rs` and the supervision of one process (`runtime/mod.rs`) | the file is a sequence of pieces and newlines, `synced` what a power loss keeps; one action per system call under the lock |
| `ProbeRecorder` | `hal/probe.rs`, the worker's window, queue and saving thread, `probe_mode.py` | frames are the numbers of their periods; a file's state is what is named, linked and durable |
| `SessionSupervisor` | `session/mod.rs`, `wait/mod.rs`, `identify` | `process` is the kernel's table with a number for each life of a pid; `children` is what the supervisor believes of each; `listed` the rest of a scan |
| `MC*` | nothing: constants and inputs of the runs | |
| `*_proofs` | nothing: theorems; `Pendant_proofs` is about the supervisor, the runtime and the servo cycle together, the others each about the module they are named for | |

Conventions. A field whose Rust type is `Option` holds `None` or its value.
A handler that the code calls after another has changed the state takes the
changed records as parameters, so one servo cycle is one step. Any handler may
latch a fault; `Settle` then does what `latch_fault` does to the other half of the
state, in the same step. Time is counted in servo cycles, positions as the signed
distance `togo` that remains to the active target, which is all the code asks of
counts, targets and tolerances.

Each property of a run has, next to the definition it is about, an operator marked
`mutant of`: the definition with a plausible slip in it (a field not dropped, a
guard forgotten). Replacing the definition by it makes the run of that property
fail; nothing else uses these operators.

## 3. The runs

`estop_gesture` (`MCEstopGesture`). Whatever packets arrive and however
the supervisor engages, restarts or accepts the gesture, an unlock is requested
only after the eleven moves in order, under one decoder-error counter. The
automaton implements `GestureScript` (`ScriptIsFollowed`).

`supervisor_power` (`MCSupervisorPower`). The gate, the requests, the latch resets
and the one cold start, over every machine state, gesture packet, pair of limit
vectors, reset edge, clear and runtime fault: `FaultedIsInert`,
`GateMeansRecovered`, `MachineOnNeedsTheGesture`, `StartupHappensOnce`.

`supervisor_jog` (`MCSupervisorJog`). Pendant motion against a LinuxCNC
in any state: `LatchResetHasAnOwner`, `PhasesKeepTheirSubject`,
`OnlyAwayFromTheLimit`, `IncrementsNeedArming`, and of steps `ReversalsStopFirst`, `AbandonedJogsAreStopped`, `AttributionIsKept`.

`power_loop` (`MCPowerLoop`). The supervisor in its loop, with no press inside
a power sequence: the latch always comes back after the release
(`RearmedAfterRelease`), a completed gesture ends with the machine on
(`GestureTurnsMachineOn`). The wait steps of the
code have no timeout, so this is a question about the whole loop: does each request
level make an edge at HALUI, is the gate open when the pulse arrives, does the
status come back.

`servo_cycle` (`MCServo`). The runtime with both guards, freshness, clears, resets and
the decoder-reset handshake, every kind of ill health in every cycle, and the motion
channel behind it. Of the runtime: `GuardFaultsAreHeld` (guards and supervisor are cleared as one);
`CommandsAreOfThisCycle` (the supervisor's command is published also in cycles in
which it does not run, so none may be left in it); `StaleTaskStartsNoJog`;
`PressIsObeyed` (with both guards ready, a press that was read closes the gate, and
no clear, reset or acknowledgement opens it). Of the two together:
`NothingIsRefused` (an increment is issued only to a channel that can take it, and
the cumulative counts are back at zero before the next, so that neither
`ChannelRebasing` nor `checked_add` ever fails); `OffersAreExact` (each cycle offers
LinuxCNC exactly what the increment then owes it less); `OnlyContactsOrphan` (a jog
lives in the supervisor and in the channel, and with no fault held every way of
retiring the first stops the second, a probe contact excepted). And of the start:
`OpenCommitsNeedMachineOn` (a start is also left by a press, a held fault, a switch, a
clear and AXIS Reset; in whatever way, the watchdog is committed with the gate open only
while Machine On is reported, unless an AXIS Reset sequence is under way). README.md's
rule has neither exception and is `EveryCommitNeedsMachineOn`, see section 6.

`startup_loop` (`MCStartup`). A cold start from nothing, through the guards, the HAL
watchdog, HALUI and task, with three losses of AXIS, status, Nano or watchdog on the
way, none of them while a request to HALUI is up: it ends with LinuxCNC on and the
watchdog committed (`ColdStartCompletes`). This is README.md's retry only for what is lost
between the requests; a loss while one is up can leave the start hanging (section 6).

`snapshot_generation` (`MCSnapshot`). A writer and a reader of a block of pins, each
access a step, implement `AtomicSnapshot` (`AtomicSnapshotSpec`): what the reader
accepts is one publication, the one that stands at that moment, though the
generation wraps and publications begin under the read.

`pendant_link`. Decoder, wire, bridge and runtime: the dropped-packet counter is exact
across the wrap of sequence and counter (`DropsAreCounted`); a quadrature fault is
ended only by a restart of the decoder or a reset asked for while the port is open
(`QuadratureFaultIsHeld`); a pressed button is reported or released, whatever is lost
(`PressIsReported`).

`tool_setter`. Clears, reset pulses, button presses and program starts at any point
between the two functions of a cycle: a program that ran into the latch gets no feed
while it runs (`FeedWaitsForTheProgram`), a press refused once clears nothing later
(`AcknowledgementIsFresh`), a stop reaches the program (`AbortsArrive`).

`session_journal` (`MCJournal`). Three supervisors on one file, each killed anywhere,
calls that fail, power losses: `AcknowledgedSurvives`, `LinesAreWhole`,
`SuccessIsRecorded` (a supervisor returns its child's status only if all it had to
record is there).

`probe_recording`. From the servo thread's frames to a file on disk: a recording
without a gap count has no gap (`CompleteMeansAll`), a file under the final name is the
whole recording (`NamedIsWhole`), what AXIS shows as saved survives a power loss
(`SavedIsDurable`), and what was recorded is saved in the end (`FinishedIsSaved`), also
when the retry fails as the save did, or when a late answer has AXIS act on the answer
before the last: the socket AXIS opens after a timeout has the name of the old one, so the
worker's late answer reaches it and is taken for that of the next request.

`session_supervisor`. Processes fork, end, are orphaned and have their pids given out
again between any two steps of the owner: at the end none is left and the owner has a
status, the root's or that of a later holder of its pid (`NothingIsLeftBehind`, section
6), what the owner knows of a pid is of the process that
holds it (`EvidenceIsOfTheProcess`), and it returns once nothing runs (`SessionEnds`).

Configurations that no run uses (`MCPowerLoopRepress`, `MCPowerLoopEcho`,
`MCRuntimePress`, `MCRuntimeAck`, `MCStartupMidway`, `MCServoProbe`) show the
disagreements of section 6: each names one property, and TLC finds it violated, for
example with `tlc -config MCPowerLoopEcho.cfg MCPowerLoop`.

## 4. Bounds, inputs and fairness

*Motors.* Two of three. Every handler treats one motor, or asks whether a set of
motors is empty, a singleton or larger; two reach all three answers.

*Timers.* A timer saturates at `TimerCap = 3`, above every threshold, and runs only
in the phases that read it. Thresholds are 1 or 2 cycles. The code compares each
timer with one threshold, so only "not yet" and "reached" matter; where
two thresholds run together (`LimitReset` and `LimitResetTimeout`) both orders
are reached. The proofs assume only that thresholds are positive and below the cap.

*Distances.* One pulse and two; the backoff is two pulses. The signs of
`togo`, of the request and of the active delta decide every branch.

*Decoder errors.* One value in the supervisor runs (a changed counter restarts
the gesture or the interpreter and is one step away from the same states), two in
`estop_gesture`.

*Inputs.* The full product of what HAL can show is too large. `MCSupervisor` lists
the combinations each run offers in every cycle, named for what they stand for;
within a run any of them may follow any other.

*Guards and freshness.* Guard times are 1 cycle in `MCServo`, 1 or 2 in `startup_loop`;
each phase compares its timer with one threshold. `Staleness = 2` is both timeouts in cycles: fresh, old, stale. `Requests = 2`
decoder-reset generations tell the awaited acknowledgement from an older one; one
is enough in `servo_cycle`, where any acknowledgement may come at any time.

*Frames.* `MCRuntime`, whose frames `MCServo` builds on, takes a machine that is well in one of three LinuxCNC states
and adds one or two things that are not (a bite, an I/O error, a loss, stale
counters, an incoherent snapshot, a decoder error, a press, a reset edge, a clear,
an acknowledgement), and a jog with a switch on its way; any frame may follow any
other. `MCStartup` has every frame of a start with the button up, tied to
the state of the loop by `Shown`. `MCServo` has the same ill
health with LinuxCNC in E-stop and with it on, and jogs of five pulses that go on, are turned back, let go, run into a
switch, lose their path, mode, task, link or watchdog, and are cleared. A start meets all
of it, and a switch that is down before LinuxCNC is on.

*The channel.* `Budget = 2` and jogs of 5 pulses: three chunks, the last of them
short, so that a withdrawal can come before the second, before the last and after it.
Real increments take two to four cycles. `CountMax = 4` stands for `i32::MAX`: the
longest run of counts without a rebase is three. `MotionAcceptTimeout = 2` is longer
than the cycles an increment is still being offered for after the one that issued it,
as 100 ms are in the code's terms. `Honest` keeps LinuxCNC from reporting a target
as reached while part of it has not been offered.

*Lapses.* `Lapses = 3` losses or bites in `startup_loop`; `LapseMidway = FALSE` keeps
them out of the periods in which a request to HALUI is up, so `ColdStartCompletes` says
nothing of a loss in one of these. With `TRUE` one is enough for the disagreement of
section 6.

*Snapshots.* Two pins of two values, a generation that wraps after four publications
and up to three that begin during one attempt to read: `2 * ReadWindow < Modulus` is
the one thing the algorithm needs of the reader's speed, and 2^32 gives it freely.

*Link.* `SequenceModulus = 6` and one loss in a row: a gap, a repetition and a reversal
are told apart and the wrap comes after six packets; `CounterModulus = 2` wraps the
drop counter too. One line on the wire, one misread, one reset request.

*Tool setter.* Four request numbers: one seen by neither function of the cycle, by
one, or by both.

*Journal.* Three supervisors, alike (symmetry, no liveness), two faults: a record cut
short, then its repair cut short, then a third writer. Records are two pieces and a newline.

*Recordings.* Four servo periods, a stream of one frame, a memory of two, and two faults,
so that a failed save meets a second failure, the death of its thread or a late answer;
four retry values, since at most three presses come between two looks. The model keeps
the retry counter relative to the worker's last look, which is all the worker asks of it.

*Session.* Three pids and four processes, so that the pid of a process that was
reaped is given out again while another still runs; one failing call.

*Fairness* (`PendantLink`, `ToolSetter`, `ProbeRecorder`, `SessionSupervisor`). The bridge's
loop is scheduled and the clock runs; nothing is assumed of decoder, wire or runtime. The
servo thread runs, the task polls its enable and HALUI its pins. The recording
worker and the saving thread run, AXIS polls, and an operator who is shown a failed save
presses Retry Save, which is what that button asks of him. The session's owner runs;
of its processes nothing is assumed, and `SessionEnds` speaks of sessions in which
nothing runs any more. Faults are bounded, so failures end.

*Fairness* (`StartupLoop`). Weak fairness of the servo period, HALUI, task, the
publication and the end of the pulse, as below, and of `ComeBack`: README.md has the
start wait for each prerequisite without a limit, so its end is promised only
if what is lost returns. A bite needs no fairness: the watchdog is well from the next
edge of its enable.

*Fairness* (`PowerLoop`). Weak fairness of the servo thread, HALUI, LinuxCNC
task, the monitor's publication and the end of iocontrol's pulse: periodic
loops that the code and LinuxCNC never stop. The Nano sends packets periodically, so
the fair servo step is one that brings a packet whenever the loop is quiet. Weak
fairness of `OperatorReset` is the premise of README.md's sentence, an
operator who goes on pressing AXIS Reset. Nothing is assumed of the button, of the
gesture, or of the order in which userspace steps come.

*Assumptions on the environment.* `HandIsSlow`: a packet of the gesture finds HALUI,
task and monitor done with what came before (milliseconds against a human hand).
`Raise`: iocontrol's cycle is longer than a servo period, so the servo thread
sees the reset line high before it falls and low before it rises. `PressMidway =
FALSE` keeps presses out of a running power sequence in `power_loop`; with `TRUE`
the property fails, see section 6.

Deadlock is checked in every run but three: the supervisors of `session_journal` and
`session_supervisor` return, and `probe_recording` ends with the last period or a power loss.

*Assumptions on the environment, further out.* An E-stop reset of LinuxCNC's task leaves
no program running (`ToolSetter`). A write reaches the journal in order, so what a power
loss keeps is a prefix; unlocking does not fail. Losses never reach half the sequence
space (`LinkAssumption`). The kernel gives a pid out again only after its holder was
reaped, and hands orphans to the subreaper.

## 5. What is proved

TLAPS proves, for every value of the constants that the modules' assumptions admit:

### The gesture: `EstopGesture_proofs`

`TypeCorrect`, `UnlockIsEarned` (`UnlockNeedsTheWholeScript`), and `FollowsScript`, the
refinement of `GestureScript`: the initial state maps to the initial state and each step
to a move, a restart or a stutter. What the operators of `RecoverySequence` do is stated
in lemmas here and, as far as the supervisor needs it, again in `Pendant_proofs`.

### Supervisor, runtime, servo cycle: `Pendant_proofs`

One module, because each layer's proof uses the lemmas of the one below: a cycle of the
runtime runs the supervisor's operations, a servo cycle runs the runtime's.

| Layer | Theorems | Inductive invariant |
|---|---|---|
| supervisor, power (parts 1-3) | `TypeCorrect`, `FaultsAreInert`, `GateIsEarned`, `RequestsAreOwned`, `MachineOnIsEarned` | `IInv` |
| supervisor, motion (4, 5) | `LatchResetsAreOwned`, `SubjectsAreKept`, `LimitsAreLeftAway`, `IncrementsAreArmed`; of steps `ReversalsAreStopped`, `AbandonedJogsStop`, `AttributionsAreKept`, `StartupIsDecidedOnce` | `MotionIInv` |
| runtime (6) | `RuntimeTypeCorrect`, `GuardFaultsHeld`, `PressObeyed`, `SupervisorKept`, `JogsKept`, `CommandsOfThisCycle`, `StaleTaskStartsNone` | `RuntimeInv`, `RuntimeJogInv` |
| servo cycle (7) | `ServoTypeCorrect`, `ServoGuardFaultsHeld`, `ServoPressObeyed`, `ServoCommands`, `OffersExact`, `NothingRefused`, `ContactsOrphan` | `ServoInv`, `ServoJogInv` |

*Power.* The supervisor's invariants are not inductive by themselves. The gate
is closed in a fault only because the fault is latched together with `Dropped`, and
`MachineOnNeedsTheGesture` depends on `restore` being dropped with each
new engagement. `IInv` is the types of `link` and `ready`
and `PowerInv(startup, recovery, power, motion)`, which says in addition

* a held fault leaves both halves inert (`Faulted`, `Inert`),
* which power steps go with which recovery stages (`StepInv`): the latch steps and
  `AwaitUiReset` never with a gesture under way, the asking steps only with
  `CompletePending` or no gesture at all,
* what each step and startup phase may be asking for (`OutputInv`).

`PowerInv` takes its parts as parameters because within a cycle handlers run on
intermediate records. The proof goes the same way as the code: of each handler of the
motion half that it keeps the type, is inert after a fault and never enters a startup
phase; then of each branch of `update()` and each other operation that it keeps `PowerInv`.

*Motion.* `MotionIInv` adds `JogInv`. Its core is `Shape`: a phase that waits for motion
has a jog, a phase of the limit release has a limit and no other phase has one, a detent
is pending only in Pendant Mode, an increment is armed and leads away from the attributed
limit. That alone is not inductive, for the two halves meet in one place that `Shape` does
not see: the operations that reset the supervisor wholesale (the base reset, Clear Fault,
the gesture) would forget a jog or a limit if there were one. So `JogInv` says that motion
rests before the startup decision, during the gesture and after Clear Fault, that no step
of the power sequence has a jog, and that an increment needs the gate open and all of this
over. The handlers are then shown one by one to return a record that is `Fine`, keeps the
attribution (`Holds`) and turns a jog only when all motion has stopped or this jog is on
its target (`Steers`), which gives the step theorems.

*Runtime.* The supervisor's proof speaks of a free environment; here each of its operations
is called by `RuntimeUpdate`, once as a composition of two of them in one cycle
(`FaultedUpdate`) and with inputs that the runtime builds (`SupervisorInput`), so each
call has to be shown to be one the supervisor's invariants survive. `RuntimeInv` is `IInv`,
the types of the runtime's own fields and the two properties. `RuntimeJogInv` adds `JogInv`
and `Issued`: while an increment stands, both guards are ready and the watchdog is
committed. A committed guard leaves that phase only by faulting and a fault takes the
increment back, so the supervisor runs in the next cycle and resets the command; with the
mode switch gated by freshness, the task was alive unless the increment is the backoff's.

*Servo cycle.* `ServoInv` is `RuntimeInv`, whose step lemmas are used again with the frame
the channel's readiness has been written into, and the channel's types; `OffersExact` needs
no more than that. `NothingRefused` and `ContactsOrphan` relate the supervisor's jog to the
channel's increment, and `ServoJogInv` says how:

* `Carries`: the counts have room for the rest of the increment, and are back at zero before
  the channel is ready again. It depends on `Sized`: the supervisor issues only to a
  channel that is ready, never an empty increment, and at most a detent and the rest of the
  jog it continues.
* `Timed`: a jog that is being stopped has nothing left in the channel, and what any other
  has left is offered before `MotionAcceptTimeout`, after which the supervisor drops a
  jog without stopping it. Without the last conjunct of `LengthAssumption` the theorem is
  false: with a timeout of one cycle TLC finds `OnlyContactsOrphan` violated in `MCServo`.
  The code has the margin by configuration only: by `machine-pulses.conf` a detent of 10,
  100 or 1000 pulses is offered at 5,000, 75,000 or 300,000 pulses a second, a few
  milliseconds against the 100 ms of `MOTION_ACCEPT_TIMEOUT_NS`. The backoff (250 at 1,500)
  is longer and needs none: its phase fails, and so stops.
* `Rides`, of a step: while the channel still has something to offer, the jog goes on in its
  phase unless a fault is held or a stop has been issued.

### Around the pendant

* `SnapshotGeneration_proofs`: `SnapshotCorrect`, the invariant, and `PinsAreAtomic`, the
  refinement of `AtomicSnapshot`, for every set of pins and every even modulus. The
  invariant ties the pins to the writer's progress (`WriterInv`) and says that the
  generation a reader started from is the writer's less the publications begun since, so
  that an equal generation at the end means none, or too many for `ReadWindow`
  (`ReaderInv`).
* `PendantLink_proofs`: `DropsCounted` and `QuadratureFaultHeld`, for every even modulus of
  the sequence, every modulus of the counter and every capacity of the wire. `LinkInv` is a
  chain of sequences from the packet the bridge accepted last through the lines on the wire
  to the decoder: each follows the one before by itself and the packets lost between. A
  restart, a garbled line and a closed port break the chain, and at each of them the bridge
  forgets its baseline; the distance computed modulo the width is then the loss, as long as
  a run of losses is shorter than half the modulus.
* `ToolSetter_proofs`: `FeedWaits` and `Acknowledged`, for every request width. The
  invariant (`SetterInv`) says that setter and controller are at most one
  request apart (`RequestsAreNear`) and in which states a tripped program still
  has the latch, a clear under way or a closed gate to hold it (`TrippedIsHeld`).
* `SessionJournal_proofs`: `LinesWhole`, `AcknowledgedSurvive` and `SuccessRecorded`, for
  every number of supervisors and faults. `JournalInv` says that the lock is exclusive,
  where in the file the writer under it stands (`CursorOK`), that no line mixes
  records, and that what was acknowledged lies within the synchronized prefix
  (`AcknowledgedIsSynced`): a truncation by a power loss then takes only what nobody
  was promised. The lemmas say what an append and a truncation leave of the lines.
* `ProbeRecorder_proofs`: `CompleteRecordings`, `NamedFilesAreWhole` and
  `SavedFilesAreThere`, for every size of stream and recording and any number of periods
  and failures. `StreamInv`: the periods between two frames of the stream were off, or the
  second frame says that something is missing; so the worker, who counts the periods since
  an armed frame and believes the mark after any other, misses no armed one (`WorkerInv`),
  and a recording that has ended is followed by a period that was off (`ClosedInv`).
  `DiskInv` says how far each call of `save()` has brought the file.
* `SessionSupervisor_proofs`: `SessionTypeCorrect`, `LeavesNobody` and
  `EvidenceOfTheProcess`, for any number of pids, processes and failing calls. The owner
  returns when `wait` finds no child, which says nothing of grandchildren. `SessionInv`
  therefore keeps that each process is a child of the owner or of an older process that
  runs (`FamilyIsRooted`), since the owner is subreaper before anybody is there; the oldest
  process of a session is then a child of the owner, so one without children has nobody.

Each strengthened invariant was model-checked before it was proved: `MotionIInv` on the
instances of `supervisor_power` and `supervisor_jog`, `ServoJogInv` on `servo_cycle`,
`SessionInv`, `RecorderInv` and `LinkInv` on those of their modules, `LinkInv` also with two
lines on the wire.

### What the proofs assume

The assumptions are those the modules declare, and TLC evaluates them in the runs:
`SampleAssumption` and
`InterpreterAssumption` (motors, error counters and pulses are what their types
say), `NoneAssumption` and `NoSelectionAssumption` (`None` is none of the values it
stands beside), `TimerAssumption`, `InputsAssumption` and `SamplesAssumption`
(inputs are of their type), `GuardAssumption`, `RuntimeAssumption`, `ChannelAssumption`,
`PinAssumption`, `GenerationAssumption`, `SetterAssumption`, `JournalAssumption`,
`SessionAssumption`, `RecorderAssumption`, `BridgeAssumption` (sizes, and again what `None`
is not), `LengthAssumption` (above; it also keeps an increment within the counts) and
`LinkAssumption` (losses, see section 4). `LoopAssumption` and `StartupLoopAssumption`
belong to modules nothing is proved about.

Proved and not in a run: the type invariants, `UnlockIsEarned` (the single steps of the
gesture), `RequestsAreOwned` (each request has the step that owns it), `SupervisorKept` and
`JogsKept` (the supervisor's invariants inside the runtime).

Only model-checked: the liveness properties (`RearmedAfterRelease`, `GestureTurnsMachineOn`,
`ColdStartCompletes`, `PressIsReported`, `AbortsArrive`, `FinishedIsSaved`, `SessionEnds`),
because liveness and ENABLED are out of the prover's reach; and `OpenCommitsNeedMachineOn`,
which needs of HAL that it shows a ready path only with Machine On (`ready_jog_path`,
`component/model.rs`), so far a fact about the frames of `MCServo`.

## 6. Where code and text disagree

* README.md of the repository says that after the release AXIS Reset or the completed
  gesture re-arms the latch. A press and release while the power sequence of a
  completed gesture runs (`GateSettle`, `WaitReset`, `WaitOn`) closes the gate and
  engages nothing, since the gesture still counts as active; afterwards the step
  goes on waiting with the gate closed and AXIS Reset is ignored. Clear Fault ends
  it. The program fails closed. Configuration
  `MCPowerLoopRepress`.
* The comment at `runtime.rs:266` says that internal reset echoes are not operator
  clears. The code takes any rising edge of the reset line while a
  fault is latched as one; if a limit fault latches between HALUI taking the
  supervisor's own request and the pulse coming back, the echo clears it. Configuration
  `MCPowerLoopEcho`.
* README.md says that pressing the button drops the gate. The gate follows the button
  only in cycles in which the supervisor runs, that is with both guards ready
  (`runtime.rs:318`), while a reset on a held fault opens the gate in any cycle. A
  decoder fault during arming, an AXIS Reset and then a press leave the gate open
  with the watchdog already well, until the guard is ready. Configuration
  `MCRuntimePress`; that
  it cannot happen with both guards ready is `PressIsObeyed`.
* README.md says that a fault of the committed watchdog is never cleared
  automatically. An acknowledgement of an earlier decoder reset clears whatever
  fault is held when it arrives (`runtime.rs:272`), the watchdog's too. Configuration
  `MCRuntimeAck`.
* README.md says that a watchdog drop before the start has completed closes the gate,
  re-arms and retries the automatic reset, and that every retry clears the request
  first. If the drop comes after HALUI took the reset request, the supervisor is not
  run while the guard re-arms, the level stays up, and afterwards
  `StartupReadyWaitReset` only waits (`controller/startup.rs:38`). The start hangs until
  someone resets by hand. Configuration `MCStartupMidway`. LinuxCNC stays in E-stop meanwhile.
* The comment on `observe_manual_probe_stop` (`controller/jog.rs:8`) says that a
  contact retires the interrupted target without issuing motion, and
  `live/hal/probe_mode.hal:13` that LinuxCNC has already stopped the jog. Only the
  supervisor's jog is retired; an increment the channel is still issuing goes on,
  after the stop, for the cycles it has left. Configuration
  `MCServoProbe`; that nothing else in
  `update()` does so without a held fault is `OnlyContactsOrphan`.
* `docs/process-lifecycle.md` says that the session owner retains the root status.
  `record_termination` recognizes the root by its pid alone (`session/mod.rs:350`), also
  after the root has been reaped; a later child of the session that is given the same
  pid overwrites the status, and the session returns, and reports, another process's
  exit. TLC shows it in `SessionSupervisor` with the invariant `status \in {None, 1}`
  (the root is process 1). It takes a wrap of the pids within one session.
  `NothingIsLeftBehind` and `LeavesNobody` therefore claim some status, not the root's.
* README.md says that only after the completion of reset and Machine On the watchdog is
  committed. `startup_sequence_complete` (`controller/mod.rs:340`) asks only that the start
  is over, and a press or a fault in it ends it too: the cycle commits with the gate closed
  and the machine off, and a later drop of the watchdog is then a fault and no longer a
  retry. AXIS Reset on a fault held in the start takes the start over and commits with its
  own sequence under way and the gate open. TLC finds these with
  `EveryCommitNeedsMachineOn` as the property of `MCServo.cfg`; that there is no other
  with the gate open is `OpenCommitsNeedMachineOn`.

With a fault held an increment also goes on without its jog, and nothing in the repository
says otherwise: a link, packet or decoder fault of the runtime is latched before `update()` resets the
command of the cycle (`runtime.rs:300-318`, `controller/update.rs:38`), so its
immediate stop never reaches the channel, and the rest of the increment is offered with
the gate closed.

## 7. What is not modelled

`PROJECT.json` lists every component with its status. Left out for good:

* `dmc2ctl`, object mapping and fitting: numerical geometry; its dispatch and script
  contract run commands one after the other and wait for each (`submit_clear` is
  `RequestClear` of `ToolSetter`);
* HAL bindings, diagnostics, generated interface tables, the task monitor's error
  channel and coordinator: declarations, catalogues and message formatting without a
  protocol of their own;
* the launcher and installation scripts: file checks and process calls;
* G-code, machine configuration, the AXIS interface but for its Reset button and the
  probe controls: data and an external user interface;
* the fault record and its evidence: nothing reads it back into control (its
  transport to the task monitor is `SnapshotGeneration`).

Left out of modelled parts:

* of the bridge: selectors, wheel, heartbeat and the counters other than the drops;
* of the tool setter: lamps and `last_sample`;
* of the recorder: touch notices and their cursor, presentation, and whether the parent
  directory's own entry survives a power loss. `missing` may count more than was
  lost, although the file's header calls it a minimum; only zero is relied upon;
* of the supervisors: the text of records, the records about failing waits and scans,
  core limits, backtraces, and the content of the failure report (written to a temporary
  name and renamed). Of the capture threads only that they end when every holder of
  their pipes has, not that their own output can be blocked.

Waits of the code that have no end in the model either, and no property claims one:
`BounceReleaseWait` waits for the operator, a startup backoff waits for the latch
of a switch that may have opened, `AwaitUiReset` waits for the visible reset; and a
program started while the setter's abort pin is already up makes no new edge at HALUI
and stays without feed until the operator aborts it (`AbortsArrive` speaks of the edge).

## 8. Plan

1. (done) the gesture and its script; the supervisor; the power loop; the startup guards,
   the runtime and the cold start; the motion channel and the servo cycle.
2. (done) the serial link from decoder to runtime; snapshots between processes; the tool
   setter; the lifecycle journal; probe recording; the session owner.
3. Left to model: the consumer of the wheel counts in LinuxCNC, so far only the distance
   `togo` of a frame; the heartbeat against the 100 ms of the HAL watchdog, which
   needs time in both processes; the composition of `PendantLink` with `PowerLoop`.
4. (done) Proofs of every safety invariant and every step property of the runs but one.
5. Left to prove: `OpenCommitsNeedMachineOn`, with an assumption that frames with a ready
   path have Machine On, from an invariant that says in which phases and power steps the
   watchdog can be uncommitted with the start over; what `FinishedIsSaved` needs of safety, that a finished recording is
   saved, waits to be or is with the writer; the types of `PowerLoop` and `StartupLoop` and
   the supervisor's invariants inside them, as `SupervisorKept` has them inside the runtime.
