---------------------------- MODULE SessionJournal ----------------------------
(***************************************************************************)
(* The lifecycle journal (journal/mod.rs): one file that every process     *)
(* supervisor of a session appends to under flock, and the supervisor of   *)
(* one process (runtime/mod.rs) that decides what a failed append means.   *)
(* A supervisor can be killed and the machine can lose power between any   *)
(* two steps; a record is two pieces and its newline, written by as many   *)
(* writes as the system likes.                                             *)
(***************************************************************************)
EXTENDS Integers, Sequences

CONSTANTS Supervisors,
          MaxFaults,      \* bound: calls that fail, kills and power losses
          None

Results == {"ok", "journalError", "journalAfterSpawn", "startupError"}

ASSUME JournalAssumption ==
  /\ None \notin Supervisors \cup Results \cup {"append"}
  /\ MaxFaults \in Nat

VARIABLES file,           \* the pieces of the journal
          synced,         \* how many of them a power loss keeps
          lock,           \* the supervisor that holds the flock
          supervisor,     \* what each is doing
          faults,         \* how many there have been
          acknowledged    \* the records whose append has returned Ok

vars == <<file, synced, lock, supervisor, faults, acknowledged>>

(***************************************************************************)
(* A supervisor opens the journal, records its start, spawns its process,  *)
(* records that, and records the end of the process; or records that the   *)
(* spawn has failed. What it records when wait4 fails is left out: those   *)
(* records are like the second.                                            *)
(***************************************************************************)
Events == {"supervisorStarted", "processStarted", "processTerminated", "spawnFailed"}
Stages == {"open"} \cup Events
Steps == {"lock", "separate", "syncRepair", "write", "sync"}

Records == Supervisors \X Events
Newline == [record |-> None, part |-> "newline"]
Piece(record, part) == [record |-> record, part |-> part]
Bytes(record) == <<Piece(record, "start"), Piece(record, "end"), Newline>>
Pieces == [record: Records, part: {"start", "end"}] \cup {Newline}

\* A supervisor that waits to open the journal might as well not have been
\* started: no crash needs to tell them apart.
Unborn == [stage |-> "open", step |-> "lock", written |-> 0, failure |-> None,
           result |-> None]
Live(w) == supervisor[w].step # "dead" /\ supervisor[w] # Unborn

(***************************************************************************)
(* What a supervisor does when its append, or its opening of the journal,  *)
(* has succeeded or failed.                                                *)
(***************************************************************************)
Goes(s, stage) == [stage |-> stage, step |-> "lock", written |-> 0,
                   failure |-> s.failure, result |-> None]
Ended(result) == [stage |-> "open", step |-> "dead", written |-> 0, failure |-> None,
                  result |-> result]

\* take_first() of the failure tracker decides.
Finished(s) == Ended(IF s.failure = None THEN "ok" ELSE "journalAfterSpawn")

\* record_success() that forgets the failure it recovers from.
ForgetsFailure(s) ==
  CASE s.stage = "open" -> {Goes(s, "supervisorStarted")}
    [] s.stage = "supervisorStarted" -> {Goes(s, "processStarted"), Goes(s, "spawnFailed")}
    [] s.stage = "processStarted" -> {Goes([s EXCEPT !.failure = None], "processTerminated")}
    [] s.stage = "processTerminated" -> {Finished([s EXCEPT !.failure = None])}
    [] s.stage = "spawnFailed" -> {Ended("startupError")}

Succeeded(s) ==
  CASE s.stage = "open" -> {Goes(s, "supervisorStarted")}
    [] s.stage = "supervisorStarted" -> {Goes(s, "processStarted"), Goes(s, "spawnFailed")}
    [] s.stage = "processStarted" -> {Goes(s, "processTerminated")}
    [] s.stage = "processTerminated" -> {Finished(s)}
    [] s.stage = "spawnFailed" -> {Ended("startupError")}

\* Nothing is spawned without a record of it; once it is, the supervisor
\* stays with its process whatever becomes of the journal.
Failed(s) ==
  CASE s.stage \in {"open", "supervisorStarted"} -> Ended("journalError")
    [] s.stage = "processStarted" -> Goes([s EXCEPT !.failure = "append"], "processTerminated")
    [] s.stage = "processTerminated" -> Finished([s EXCEPT !.failure = "append"])
    [] s.stage = "spawnFailed" -> Ended("startupError")

(***************************************************************************)
(* with_lock, separate_partial_record and append, call by call.            *)
(***************************************************************************)
AppendWithoutLock(w) == supervisor[w].step = "lock"
MayLock(w) == supervisor[w].step = "lock" /\ lock = None

Lock(w) ==
  /\ MayLock(w)
  /\ lock' = w
  /\ supervisor' = [supervisor EXCEPT ![w].step = "separate"]
  /\ UNCHANGED <<file, synced, faults, acknowledged>>

\* The operation under the lock returns Ok, and so does the unlocking.
Return(w) ==
  /\ lock' = None
  /\ \E s \in Succeeded(supervisor[w]) : supervisor' = [supervisor EXCEPT ![w] = s]
  /\ acknowledged' = IF supervisor[w].stage = "open" THEN acknowledged
                     ELSE acknowledged \cup {<<w, supervisor[w].stage>>}
  /\ UNCHANGED faults

Continue(w) ==
  IF supervisor[w].stage = "open" THEN Return(w)
  ELSE /\ supervisor' = [supervisor EXCEPT ![w].step = "write"]
       /\ UNCHANGED <<lock, faults, acknowledged>>

TrustsTheEnd == TRUE
EndsInNewline == file = <<>> \/ file[Len(file)] = Newline

\* What is left of a record cut short ends in a newline of its own.
Separate(w) ==
  /\ supervisor[w].step = "separate"
  /\ IF EndsInNewline
     THEN Continue(w) /\ UNCHANGED <<file, synced>>
     ELSE /\ file' = Append(file, Newline)
          /\ supervisor' = [supervisor EXCEPT ![w].step = "syncRepair"]
          /\ UNCHANGED <<synced, lock, faults, acknowledged>>

SyncRepair(w) ==
  /\ supervisor[w].step = "syncRepair"
  /\ synced' = Len(file)
  /\ Continue(w)
  /\ UNCHANGED file

Write(w) ==
  /\ supervisor[w].step = "write"
  /\ LET written == supervisor[w].written + 1
     IN  /\ file' = Append(file, Bytes(<<w, supervisor[w].stage>>)[written])
         /\ supervisor' = [supervisor EXCEPT ![w].written = written,
                                             ![w].step = IF written = 3 THEN "sync" ELSE @]
  /\ UNCHANGED <<synced, lock, faults, acknowledged>>

LeftToTheSystem == synced
SyncedLength == Len(file)

Sync(w) ==
  /\ supervisor[w].step = "sync"
  /\ synced' = SyncedLength
  /\ Return(w)
  /\ UNCHANGED file

Fault == faults < MaxFaults /\ faults' = faults + 1

\* Any of the calls may fail, after whatever the earlier ones have done.
CallFails(w) ==
  /\ supervisor[w].step \in Steps
  /\ Fault
  /\ supervisor' = [supervisor EXCEPT ![w] = Failed(@)]
  /\ lock' = IF lock = w THEN None ELSE lock
  /\ UNCHANGED <<file, synced, acknowledged>>

\* The system drops the lock of a process that is killed.
Kill(w) ==
  /\ Live(w)
  /\ Fault
  /\ supervisor' = [supervisor EXCEPT ![w] = Ended(None)]
  /\ lock' = IF lock = w THEN None ELSE lock
  /\ UNCHANGED <<file, synced, acknowledged>>

\* The file keeps what has been synchronized and any part of what follows.
PowerLoss ==
  /\ \E w \in Supervisors : Live(w)
  /\ Fault
  /\ \E length \in synced .. Len(file) :
       /\ file' = SubSeq(file, 1, length) /\ synced' = length
  /\ lock' = None
  /\ supervisor' = [w \in Supervisors |->
                      IF Live(w) THEN Ended(None) ELSE supervisor[w]]
  /\ UNCHANGED acknowledged

Init ==
  /\ file = <<>> /\ synced = 0 /\ lock = None
  /\ supervisor = [w \in Supervisors |-> Unborn]
  /\ faults = 0 /\ acknowledged = {}

Next ==
  \/ \E w \in Supervisors :
       \/ Lock(w) \/ Separate(w) \/ SyncRepair(w) \/ Write(w) \/ Sync(w)
       \/ CallFails(w) \/ Kill(w)
  \/ PowerLoss

Spec == Init /\ [][Next]_vars

(***************************************************************************)
(* Properties.                                                             *)
(***************************************************************************)
TypeOK ==
  /\ file \in Seq(Pieces) /\ synced \in 0 .. Len(file)
  /\ lock \in Supervisors \cup {None}
  /\ supervisor \in [Supervisors -> [stage: Stages, step: Steps \cup {"dead"}, written: 0 .. 3,
                                     failure: {"append", None}, result: Results \cup {None}]]
  /\ faults \in 0 .. MaxFaults
  /\ acknowledged \subseteq Records

\* The record is a line of its own.
LineAt(record, i) ==
  /\ file[i] = Piece(record, "start") /\ file[i + 1] = Piece(record, "end")
  /\ file[i + 2] = Newline
  /\ i = 1 \/ file[i - 1] = Newline
Intact(record) == \E i \in 1 .. Len(file) - 2 : LineAt(record, i)

\* A record whose append has returned Ok stays a line of the journal, though
\* later supervisors are killed inside their writes and power is lost
\* (append: repair, write, synchronize).
AcknowledgedSurvives == \A record \in acknowledged : Intact(record)

\* No line holds pieces of two records: a record cut short, by whichever
\* supervisor, is closed before anything follows it.
LinesAreWhole ==
  \A i \in 1 .. Len(file) :
    LET piece == file[i]
    IN  /\ piece.part = "start" => i = 1 \/ file[i - 1] = Newline
        /\ piece.part = "end" => i > 1 /\ file[i - 1] = Piece(piece.record, "start")

\* A supervisor that returns the status of its process has every event of it
\* in the journal (JournalAfterChildSpawn otherwise).
Lifecycle == {"supervisorStarted", "processStarted", "processTerminated"}
SuccessIsRecorded ==
  \A w \in Supervisors : supervisor[w].result = "ok" =>
    \A event \in Lifecycle : Intact(<<w, event>>)
===============================================================================
