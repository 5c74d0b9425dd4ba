--------------------------- MODULE PendantRuntime ----------------------------
(***************************************************************************)
(* RuntimeController (dmc2-core/src/runtime.rs): one servo cycle around the *)
(* supervisor.  It decides what of a HAL frame can be trusted, preempts     *)
(* everything for Clear Fault, runs the two startup guards and calls the    *)
(* supervisor only when both are ready; in every other cycle the            *)
(* supervisor, its gate, its requests and its command stand as they were.   *)
(***************************************************************************)
EXTENDS PendantSupervisor, StartupGuards

CONSTANTS
    Frames,      \* what HAL may show the runtime in a cycle
    Staleness,   \* both timeouts, of the task heartbeat and of packets
    Requests     \* decoder-reset generations, 1..Requests before they wrap

Age == 0..Staleness
Frame ==
    [clear : BOOLEAN,              \* clear_fault_request differs from its ack
     servoReady : BOOLEAN, hasBit : BOOLEAN, ioError : BOOLEAN,
     watchdogOk : BOOLEAN, uiReady : BOOLEAN,
     monitor : BOOLEAN,            \* the task monitor is connected, no fault
     beat : BOOLEAN,               \* its heartbeat differs from the last one
     coherent : BOOLEAN, connected : BOOLEAN,
     serialFault : BOOLEAN, quadratureFault : BOOLEAN,
     ack : 0..Requests,            \* pendant_fault_reset_ack
     sample : Sample,
     news : BOOLEAN,               \* its sequence differs from the last one
     resetLine : BOOLEAN,          \* linuxcnc_estop_reset_request
     hal : Input]                  \* the rest, as the supervisor reads it

ASSUME RuntimeAssumption ==
    /\ Staleness \in Nat \ {0} /\ Requests \in Nat \ {0}
    /\ Frames \subseteq Frame

VARIABLES
    mesa, guard,   \* mesa_guard, watchdog_guard
    cache,         \* what is kept of the last coherent pendant snapshot
    task, nano,    \* task_freshness, pendant_freshness
    unread,        \* the cached sample has not been given to the supervisor
    held,          \* linuxcnc_estop_reset_request_held
    decoder        \* pendant_reset_generation, pending_pendant_reset
runtime == <<mesa, guard, cache, task, nano, unread, held, decoder>>

Cache ==
    [known : BOOLEAN, connected : BOOLEAN, serialFault : BOOLEAN,
     quadratureFault : BOOLEAN, pressed : BOOLEAN]
Freshness == [known : BOOLEAN, age : Age]
Decoder == [request : 0..Requests, pending : BOOLEAN, elapsed : Age]

RuntimeTypeOK ==
    /\ TypeOK
    /\ mesa \in Mesa /\ guard \in Watchdog
    /\ cache \in Cache /\ task \in Freshness /\ nano \in Freshness
    /\ unread \in BOOLEAN /\ held \in BOOLEAN /\ decoder \in Decoder

RuntimeInit ==
    /\ Init
    /\ mesa = NewMesa /\ guard = NewWatchdog
    /\ cache = [known |-> FALSE, connected |-> FALSE, serialFault |-> TRUE,
                quadratureFault |-> FALSE, pressed |-> TRUE]
    /\ task = [known |-> FALSE, age |-> 0]
    /\ nano = [known |-> FALSE, age |-> 0]
    /\ unread = TRUE
    /\ held = FALSE
    /\ decoder = [request |-> 0, pending |-> FALSE, elapsed |-> 0]
-----------------------------------------------------------------------------
(* lib.rs Freshness: a new value is fresh, an old one ages up to Staleness. *)
Older(a) == IF a < Staleness THEN a + 1 ELSE a
Elapsed(f) == IF f.known THEN [f EXCEPT !.age = Older(@)] ELSE f
Refreshed(f, isNew) ==
    IF isNew \/ ~f.known THEN [known |-> TRUE, age |-> 0] ELSE Elapsed(f)
IsFresh(f) == f.known /\ f.age < Staleness

(* The cycle's view of task, pendant and reset line.                        *)
Rising(f) == f.resetLine /\ ~held
TaskSeen(f) == IF f.monitor THEN Refreshed(task, f.beat) ELSE Elapsed(task)
TaskValid(f) == f.monitor /\ IsFresh(TaskSeen(f))

Seen(f) ==
    IF ~f.coherent THEN cache
    ELSE [known |-> TRUE, connected |-> f.connected,
          serialFault |-> f.serialFault, quadratureFault |-> f.quadratureFault,
          pressed |-> f.sample.pressed]
Trusted(c) == c.connected /\ ~c.serialFault
NanoSeen(f) ==
    IF f.coherent /\ Trusted(Seen(f)) THEN Refreshed(nano, f.news) ELSE Elapsed(nano)
PendantValid(f) ==
    LET c == Seen(f)
    IN  c.known /\ Trusted(c) /\ ~c.quadratureFault /\ IsFresh(NanoSeen(f))

(* A snapshot the supervisor may read, and has not read before.             *)
Unread(f) == unread \/ (f.coherent /\ f.news)
NewPacket(f) ==
    IF f.coherent /\ Trusted(Seen(f)) /\ ~Seen(f).quadratureFault /\ Unread(f)
    THEN f.sample ELSE None

Disarmed(f, mode) == mode                    \* mutant of Armed
Armed(f, mode) == mode /\ TaskValid(f)

SupervisorInput(f) ==
    [f.hal EXCEPT !.pressed = Seen(f).pressed,
                  !.linkLost = ~Trusted(Seen(f)),
                  !.quadratureFault = Seen(f).quadratureFault,
                  !.packet = NewPacket(f),
                  !.mode = Armed(f, @),
                  !.resetRising = Rising(f)]
-----------------------------------------------------------------------------
(* The decoder-reset handshake with the serial bridge                       *)

Requested(d) ==
    [request |-> (d.request % Requests) + 1, pending |-> TRUE, elapsed |-> 0]
Withdrawn(d) == [d EXCEPT !.pending = FALSE]

Expired(f) ==
    Older(decoder.elapsed) >= Staleness \/ (f.coherent /\ f.sample.held)
AckMatches(f) == f.coherent /\ f.ack = decoder.request
DecoderAwaited(f) ==
    IF ~decoder.pending THEN decoder
    ELSE IF Expired(f) \/ AckMatches(f) THEN Withdrawn(decoder)
    ELSE [decoder EXCEPT !.elapsed = Older(@)]
Acknowledged(f) ==
    decoder.pending /\ ~Expired(f) /\ AckMatches(f) /\ PendantValid(f)

(* clear_fault_state(): a guard that faulted starts over.                   *)
MesaKept(g) == g                             \* mutant of MesaCleared
MesaCleared(g) == IF g.phase = "Fault" THEN NewMesa ELSE g
WatchdogCleared(w) == IF w.phase = "Fault" THEN NewWatchdog ELSE w
ClearGuards == mesa' = MesaCleared(mesa) /\ guard' = WatchdogCleared(guard)
-----------------------------------------------------------------------------
(* update(), in the order of its returns                                    *)

(* Clear Fault comes before every look at health.                           *)
ClearFault(f) ==
    /\ f.clear
    /\ ClearLatchedFault /\ ClearGuards
    /\ held' = f.resetLine
    /\ decoder' = IF f.quadratureFault \/ cache.quadratureFault
                  THEN Requested(decoder) ELSE Withdrawn(decoder)
    /\ UNCHANGED <<cache, task, nano, unread>>

Sampled(f) ==
    /\ held' = f.resetLine
    /\ task' = TaskSeen(f) /\ cache' = Seen(f) /\ nano' = NanoSeen(f)

RetainedFaultReset(f) == Rising(f) /\ motion.fault # None
MayResetPressed(f, d) == ~d.pending          \* mutant of MayReset
MayReset(f, d) == ~Seen(f).pressed /\ ~d.pending

(* AXIS Reset on a latched fault, or the bridge's acknowledgement.          *)
ClearByReset(f) ==
    LET asks == RetainedFaultReset(f) /\ Seen(f).quadratureFault
        d == IF asks THEN Requested(DecoderAwaited(f)) ELSE DecoderAwaited(f)
    IN  /\ ~f.clear
        /\ Acknowledged(f) \/ RetainedFaultReset(f)
        /\ Sampled(f) /\ ClearGuards
        /\ decoder' = d
        /\ unread' = Unread(f)
        /\ IF MayReset(f, d) THEN ClearAndReset(SupervisorInput(f))
           ELSE ClearLatchedFault

(* What the guards and the link report in an ordinary cycle; the first of   *)
(* them to latch is the fault that stays.                                   *)
EstopActive(f) ==
    Seen(f).pressed \/ f.hal.estopped \/ RecoveryActive(recovery) \/ power.step # "None"

GuardFault(f, m, w) ==
    LET c == Seen(f)
    IN  IF motion.fault # None THEN None
        ELSE IF c.quadratureFault /\ ~DecoderAwaited(f).pending THEN "QuadratureFailure"
        ELSE IF m.phase = "Fault" THEN "MesaStartupFailure"
        ELSE IF w.phase = "Fault" THEN "ControllerWatchdogFailure"
        ELSE IF ~w.committed \/ EstopActive(f) \/ PendantValid(f) THEN None
        ELSE IF c.quadratureFault THEN "QuadratureFailure"
        ELSE IF ~Trusted(c) THEN "LinkFailure"
        ELSE "PacketTimeout"

(* fail() and then update() of the supervisor, in one cycle: the fault is   *)
(* latched, and the new cycle starts without a command.                     *)
FaultedUpdate(code, i) ==
    /\ link' = (link \/ i.packet # None)
    /\ motion' = BeginCycle(Fail(motion, code), i)
    /\ power' = Closed(Dropped(power))
    /\ ready' = FALSE
    /\ UNCHANGED <<startup, recovery>>

StartupCompleteEarly == ~startup'            \* mutant of StartupComplete
StartupComplete ==
    ~startup' /\ motion'.phase \notin StartupPowerPhases \cup StartupBouncePhases

Supervise(f, m, w) ==
    LET i == SupervisorInput(f)
        fault == GuardFault(f, m, w)
        running == m.phase = "Ready" /\ w.phase = "Ready"
    IN  /\ \/ running /\ fault = None /\ Update(i)
           \/ running /\ fault # None /\ FaultedUpdate(fault, i)
           \/ ~running /\ fault # None /\ RuntimeFault(fault)
           \/ ~running /\ fault = None /\ UNCHANGED vars
        /\ unread' = (Unread(f) /\ ~(running /\ i.packet # None))
        /\ guard' = IF running /\ StartupComplete
                    THEN [w EXCEPT !.committed = TRUE] ELSE w

Ordinary(f) ==
    LET m == MesaUpdated(mesa, f.servoReady, f.hasBit, f.ioError)
        w == WatchdogUpdated(guard, f.watchdogOk,
                 m.phase = "Ready" /\ f.uiReady /\ TaskValid(f) /\ PendantValid(f))
    IN  /\ ~f.clear /\ ~Acknowledged(f) /\ ~RetainedFaultReset(f)
        /\ Sampled(f)
        /\ decoder' = DecoderAwaited(f)
        /\ mesa' = m
        /\ Supervise(f, m, w)

RuntimeUpdate(f) == ClearFault(f) \/ ClearByReset(f) \/ Ordinary(f)

(* The realtime component also reports probe contacts and channel errors    *)
(* before update(); both are operations of the supervisor alone.            *)
ReportProbeStop == ObserveManualProbeStop /\ UNCHANGED runtime
ReportChannelError == RuntimeFault("MotionCommandEncodingFailure") /\ UNCHANGED runtime

(* RuntimeOutputs.limit_reset                                               *)
LimitResetOut ==
    IF mesa.phase = "Ready" THEN motion.limitReset
    ELSE IF mesa.reset THEN Motors ELSE {}

RuntimeNext ==
    \/ \E f \in Frames : RuntimeUpdate(f)
    \/ ReportProbeStop
    \/ ReportChannelError

RuntimeSpec == RuntimeInit /\ [][RuntimeNext]_<<vars, runtime>>
=============================================================================
