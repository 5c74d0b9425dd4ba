---------------------------- MODULE ProbeRecorder ----------------------------
(***************************************************************************)
(* Probe recordings: the servo thread writes a frame of every period into  *)
(* a bounded HAL stream (dmc2-rt hal/probe.rs), the recording worker of    *)
(* the task monitor cuts them into recordings (probe/window.rs) and hands  *)
(* each to a thread that saves it (probe/recording.rs), and the operator   *)
(* turns Record on and off and presses Retry Save on what the last answer  *)
(* of the worker has shown (probe_mode.py). Saving can fail at any call,   *)
(* and the power can go at any time.                                       *)
(***************************************************************************)
EXTENDS Integers, Sequences, FiniteSets

CONSTANTS Depth,          \* frames one pass reads; the stream holds one less
          MaxFrames,      \* frames that a recording holds
          Retries,        \* values of the retry counter, 2^32 in the code
          MaxCycle,       \* bound: servo periods
          MaxFaults,      \* bound: calls that fail, threads that die, late answers
          None

ASSUME RecorderAssumption ==
  /\ Depth \in Nat \ {0, 1} /\ MaxFrames \in Nat \ {0} /\ Retries \in Nat \ {0, 1}
  /\ MaxCycle \in Nat /\ MaxFaults \in Nat

\* A recording takes a period with Record on and one with it off.
Ids == 1 .. MaxCycle \div 2

\* The last frame that was read, a recording, and the two threads that have them.
Read == [cycle: Nat, armed: BOOLEAN]
Recording == [frames: SUBSET Nat, missing: Nat]
Worker == [reads: Nat, previous: Read \cup {None}, active: Recording \cup {None},
           saveFailed: BOOLEAN]

\* The calls of save(), and how it ends.
Saving == {"create", "write", "link", "unlink", "sync"}
Writer == [id: Ids, step: Saving \cup {"saved", "failed", "died"}]

ASSUME NoneAssumption == None \notin Read \cup Recording \cup Worker \cup Writer

VARIABLES mode, record,           \* pins of AXIS
          retry,                  \* its counter, from what the worker last saw of it
          servo,                  \* what the realtime function keeps
          stream,
          worker,                 \* what the recording worker keeps
          recordings,             \* finished recordings, in the order of their numbers
          pending,                \* those that wait to be saved
          writer,                 \* the thread that saves one
          disk,                   \* what each has on disk
          saved,                  \* those shown as saved
          ui,                     \* what AXIS keeps, and the datagrams
          faults,
          armed                   \* the periods in which recording was on

pins == <<mode, record, retry>>
memory == <<recordings, pending>>
vars == <<pins, servo, stream, worker, memory, writer, disk, saved, ui, faults, armed>>

On == worker # None
Fault == faults < MaxFaults /\ faults' = faults + 1

NewServo == [cycle |-> 0, mode |-> FALSE, pendingOff |-> FALSE, gap |-> FALSE]
NewWorker == [reads |-> 0, previous |-> None, active |-> None, saveFailed |-> FALSE]
\* What AXIS has heard, its socket, whether it waits for an answer, the requests
\* queued at the worker, and the answers queued in the socket.
NewUi == [state |-> "busy", socket |-> FALSE, waiting |-> FALSE, requests |-> 0, answers |-> <<>>]

(***************************************************************************)
(* The servo thread: capture().                                            *)
(***************************************************************************)
\* A period with the mode off that is not owed.
Skipped(off) == ~mode /\ ~off

GapForgotten == FALSE
GapFlag == servo.gap

Capture ==
  /\ On /\ servo.cycle < MaxCycle
  /\ LET cycle == servo.cycle + 1
         on == mode /\ record
         off == servo.pendingOff \/ (~mode /\ servo.mode)
         frame == [cycle |-> cycle, armed |-> on, gap |-> GapFlag]
         fits == Len(stream) < Depth - 1
     IN  /\ servo' = [cycle |-> cycle, mode |-> mode,
                      pendingOff |-> off /\ ~fits,
                      gap |-> IF Skipped(off) THEN servo.gap ELSE ~fits]
         /\ stream' = IF fits /\ ~Skipped(off) THEN Append(stream, frame) ELSE stream
         /\ armed' = IF on THEN armed \cup {cycle} ELSE armed
  /\ UNCHANGED <<pins, worker, memory, writer, disk, saved, ui, faults>>

(***************************************************************************)
(* The window: observe() and push().                                       *)
(***************************************************************************)
\* What a frame tells of frames that are not there.
LostBefore(frame) ==
  IF worker.previous # None /\ worker.previous.armed
  THEN frame.cycle - worker.previous.cycle - 1
  ELSE IF frame.gap THEN 1 ELSE 0

Pushed(recording, frame) ==
  IF Cardinality(recording.frames) < MaxFrames
  THEN [recording EXCEPT !.frames = @ \cup {frame.cycle}]
  ELSE [recording EXCEPT !.missing = @ + 1]

Observed(frame) ==
  LET open == IF frame.armed /\ worker.active = None THEN [frames |-> {}, missing |-> 0]
              ELSE worker.active
      counted == IF open = None THEN None
                 ELSE [open EXCEPT !.missing = @ + LostBefore(frame)]
  IN  IF frame.armed THEN Pushed(counted, frame) ELSE counted

(***************************************************************************)
(* The worker: a pass of its loop reads the stream; then it takes back     *)
(* what the writer has done, starts the next and answers AXIS. No other    *)
(* thread tells these three apart, so they are one step.                   *)
(***************************************************************************)
ReadFrame ==
  /\ On /\ stream # <<>> /\ worker.reads < Depth
  /\ LET frame == Head(stream)
         recording == Observed(frame)
         ends == ~frame.armed /\ recording # None
     IN  /\ worker' = [worker EXCEPT !.reads = @ + 1,
                                     !.previous = [cycle |-> frame.cycle, armed |-> frame.armed],
                                     !.active = IF frame.armed THEN recording ELSE None]
         /\ recordings' = IF ends THEN Append(recordings, recording) ELSE recordings
         /\ pending' = IF ends THEN Append(pending, Len(recordings) + 1) ELSE pending
  /\ stream' = Tail(stream)
  /\ UNCHANGED <<pins, servo, writer, disk, saved, ui, faults, armed>>

WriterAt(step) == writer # None /\ writer.step = step
Returned == WriterAt("saved") \/ WriterAt("failed") \/ WriterAt("died")
Busy == writer # None /\ ~Returned

\* A recording that could not be saved goes back to the front.
DroppedOnFailure == pending
KeptOnFailure == <<writer.id>> \o pending
Waiting == IF WriterAt("failed") THEN KeptOnFailure ELSE pending

\* Retry Save changes its counter, which the worker compares with the value of
\* its last pass: counted from that value, it is 0 when nothing was pressed, or
\* when the presses wrapped it.
StillFailed ==
  /\ IF Returned THEN ~WriterAt("saved") ELSE worker.saveFailed
  /\ retry = 0

\* save() begins by looking for the final name: a link that is there is kept.
AlwaysCreates(id) == "create"
FirstStep(id) == IF disk[id].named THEN "unlink" ELSE "create"

\* AXIS tells two states from the others, which are "busy" here.
Status ==
  IF worker.active = None /\ worker.saveFailed THEN "save_failed"
  ELSE IF worker.active = None /\ writer = None /\ pending = <<>> THEN "idle"
  ELSE "busy"

\* A pass answers one request, to the name of the socket it came from, which AXIS
\* binds again each time: the answer is lost only while the socket is closed.
Answered(status) ==
  [ui EXCEPT !.requests = ui.requests - 1,
             !.answers = IF ui.socket THEN Append(ui.answers, status) ELSE ui.answers]

Continue(saveFailed) ==
  worker' = [worker EXCEPT !.reads = 0, !.saveFailed = saveFailed]

EndPass ==
  /\ On /\ (stream = <<>> \/ worker.reads = Depth)
  /\ saved' = IF WriterAt("saved") THEN saved \cup {writer.id} ELSE saved
  /\ LET wanted == ~Busy /\ ~StillFailed /\ Waiting # <<>>
     IN  \/ /\ ~wanted /\ Continue(StillFailed)
            /\ writer' = IF Busy THEN writer ELSE None
            /\ pending' = Waiting /\ UNCHANGED faults
         \/ /\ wanted /\ Continue(FALSE)
            /\ writer' = [id |-> Head(Waiting), step |-> FirstStep(Head(Waiting))]
            /\ pending' = Tail(Waiting) /\ UNCHANGED faults
         \/ /\ wanted /\ Fault /\ Continue(TRUE)         \* no thread
            /\ writer' = None /\ pending' = Waiting
  /\ ui' = IF ui.requests > 0 THEN Answered(Status') ELSE ui
  /\ retry' = 0 /\ UNCHANGED <<mode, record, servo, stream, recordings, disk, armed>>

(***************************************************************************)
(* The writer: save(), call by call. The named file and the partial one    *)
(* are two links to one inode once the first exists.                       *)
(***************************************************************************)
NoFile == [partial |-> FALSE, named |-> FALSE, content |-> "none", durable |-> FALSE]

WriterDoes(step, next, file) ==
  /\ WriterAt(step)
  /\ writer' = [writer EXCEPT !.step = next]
  /\ disk' = [disk EXCEPT ![writer.id] = file]
  /\ UNCHANGED <<pins, servo, stream, worker, memory, saved, ui, faults, armed>>

File == disk[writer.id]

DirectoryUnsynced == File
DirectorySynced == [File EXCEPT !.durable = TRUE]

Create == WriterDoes("create", "write", [File EXCEPT !.partial = TRUE, !.content = "part"])
WriteAndSync == WriterDoes("write", "link", [File EXCEPT !.content = "whole"])
HardLink == WriterDoes("link", "unlink", [File EXCEPT !.named = TRUE])
Unlink == WriterDoes("unlink", "sync", [File EXCEPT !.partial = FALSE])
SyncDirectory == WriterDoes("sync", "saved", DirectorySynced)

\* A call returns an error, or the thread panics with the recording.
WriterFails ==
  /\ writer # None /\ writer.step \in Saving
  /\ Fault
  /\ \E step \in {"failed", "died"} : writer' = [writer EXCEPT !.step = step]
  /\ UNCHANGED <<pins, servo, stream, worker, memory, disk, saved, ui, armed>>

\* Memory is lost, and so may be what is not synchronized of the directory.
PowerLoss ==
  /\ On
  /\ mode' = FALSE /\ record' = FALSE /\ retry' = 0
  /\ servo' = NewServo /\ worker' = None /\ ui' = NewUi
  /\ stream' = <<>> /\ pending' = <<>> /\ writer' = None
  /\ \E lost \in SUBSET {id \in DOMAIN disk : disk[id].named /\ ~disk[id].durable} :
       disk' = [id \in DOMAIN disk |->
                  IF id \in lost THEN [disk[id] EXCEPT !.named = FALSE] ELSE disk[id]]
  /\ UNCHANGED <<recordings, saved, faults, armed>>

(***************************************************************************)
(* AXIS (probe_mode.py): a poll asks and listens, and the buttons follow   *)
(* the answer that was heard last.                                         *)
(***************************************************************************)
Rest == <<servo, stream, worker, memory, writer, disk, saved, armed>>

\* With no request outstanding AXIS sends one, from a new socket if the last was
\* closed; then it hears the first answer that is there, whichever it answers.
Asked == IF ui.waiting THEN ui
         ELSE [ui EXCEPT !.socket = TRUE, !.waiting = TRUE, !.requests = ui.requests + 1]
Heard == [Asked EXCEPT !.waiting = FALSE, !.state = Head(ui.answers), !.answers = Tail(ui.answers)]

Poll ==
  /\ On /\ ui' = IF ui.answers = <<>> THEN Asked ELSE Heard
  /\ UNCHANGED <<pins, faults, Rest>>

\* No answer within the second: the socket is closed with the answers in it, and
\* the request stays with the worker. Its late answer is taken for that of the
\* next request, if AXIS has asked again by then, and AXIS stays one behind.
GiveUp ==
  /\ On /\ ui.waiting /\ Fault
  /\ ui' = [ui EXCEPT !.socket = FALSE, !.waiting = FALSE, !.answers = <<>>]
  /\ UNCHANGED <<pins, Rest>>

ToggleMode ==
  /\ On /\ servo.cycle < MaxCycle
  /\ mode' = ~mode
  /\ record' = (record /\ ~mode)
  /\ UNCHANGED <<retry, ui, faults, Rest>>

ToggleRecord ==
  /\ On /\ servo.cycle < MaxCycle
  /\ \/ record /\ record' = FALSE /\ ui' = [ui EXCEPT !.state = "busy"]
     \/ /\ ~record /\ mode /\ ui.state = "idle"
        /\ record' = TRUE /\ ui' = [ui EXCEPT !.state = "busy"]
  /\ UNCHANGED <<mode, retry, faults, Rest>>

RetrySave ==
  /\ On /\ ui.state = "save_failed"
  /\ retry' = (retry + 1) % Retries
  /\ ui' = [ui EXCEPT !.state = "busy"]
  /\ UNCHANGED <<mode, record, faults, Rest>>

Init ==
  /\ mode = FALSE /\ record = FALSE /\ retry = 0
  /\ servo = NewServo /\ worker = NewWorker /\ ui = NewUi
  /\ stream = <<>> /\ pending = <<>> /\ writer = None
  /\ recordings = <<>> /\ saved = {} /\ faults = 0 /\ armed = {}
  /\ disk = [id \in Ids |-> NoFile]

WorkerStep == ReadFrame \/ EndPass
WriterStep == Create \/ WriteAndSync \/ HardLink \/ Unlink \/ SyncDirectory

Next ==
  \/ Capture \/ WorkerStep \/ WriterStep \/ WriterFails \/ PowerLoss
  \/ Poll \/ GiveUp \/ ToggleMode \/ ToggleRecord \/ RetrySave

Spec == Init /\ [][Next]_vars

\* The threads are scheduled, AXIS polls, and an operator who is shown a
\* failure presses Retry Save.
FairSpec ==
  /\ Spec /\ WF_vars(WorkerStep) /\ WF_vars(WriterStep)
  /\ WF_vars(Poll) /\ WF_vars(RetrySave)

(***************************************************************************)
(* Properties.                                                             *)
(***************************************************************************)
\* A recording that says nothing is missing has every period of its interval:
\* frames dropped by a full stream are noticed, whichever they are, first,
\* last or in between, and so are frames beyond its memory (capture, observe).
CompleteMeansAll ==
  \A id \in DOMAIN recordings : recordings[id].missing = 0 =>
    \E first, last \in armed :
      /\ recordings[id].frames = first .. last /\ first .. last \subseteq armed
      /\ first - 1 \notin armed /\ last + 1 \notin armed

\* A file under the final name is the whole recording, though calls fail, saves
\* are retried and power is lost (save: link after read back, never truncate).
NamedIsWhole == \A id \in DOMAIN disk : disk[id].named => disk[id].content = "whole"

\* What AXIS shows as saved is there after a power loss.
SavedIsDurable == \A id \in saved : disk[id].named

\* A finished recording is saved in the end, also when a call fails again in its
\* retry, and when an answer that is late has put AXIS one answer behind the
\* worker; unless its thread dies with it, power is lost, or another recording is
\* never turned off (Recorder: pending.push_front; retry_save).
Gone(id) == ~On \/ (WriterAt("died") /\ writer.id = id)
FinishedIsSaved ==
  \A id \in Ids :
    <>[](id \in DOMAIN recordings /\ (On => worker.active = None)) =>
      <>(id \in saved \/ Gone(id))
===============================================================================
