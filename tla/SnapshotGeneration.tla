------------------------- MODULE SnapshotGeneration -------------------------
(***************************************************************************)
(* One writer publishes a snapshot over many HAL pins while a reader in    *)
(* another process, or in the realtime thread, reads them.  The pins are   *)
(* plain shared memory: a generation pin, odd while a publication is in    *)
(* progress, is all that tells the reader whether what it read is one      *)
(* snapshot.  Three blocks of pins work this way: the serial bridge's      *)
(* telemetry and the task monitor's status, read by the servo thread, and  *)
(* the controller's fault record, read by the task monitor.                *)
(*                                                                         *)
(* Every pin access is a step of its own.  Within a publication, and       *)
(* within a read, the pins are accessed in any order: the algorithm must   *)
(* not depend on it.                                                       *)
(***************************************************************************)
EXTENDS Integers

CONSTANTS Pins,          \* the pins of the block, the generation pin excepted
          Values,        \* what one pin can hold
          Initial,       \* the block before the first publication
          Modulus,       \* the generation pin wraps here (2^32 in HAL)
          ReadWindow,    \* publications that can begin during one attempt
          Attempts       \* attempts of one read

Snapshots == [Pins -> Values]

ASSUME PinAssumption == Initial \in Snapshots

\* The width of a generation and how slow a reader can be: a reader held up
\* for ReadWindow publications has not seen the pin wrap around.
ASSUME GenerationAssumption ==
  /\ Modulus \in Nat /\ Modulus >= 4 /\ Modulus % 2 = 0
  /\ ReadWindow \in Nat /\ 2 * ReadWindow < Modulus
  /\ Attempts \in Nat \ {0}

VARIABLES generation,    \* the generation pin
          pin,           \* the other pins
          writer,        \* the publishing process
          reader         \* the reading one

vars == <<generation, pin, writer, reader>>

(***************************************************************************)
(* The writer.  count is its generation counter, always even; source the   *)
(* snapshot it is writing, unwritten the pins it has still to write;       *)
(* mark tells the two ways an update is marked apart; published is the     *)
(* snapshot of its last completed publication.                             *)
(***************************************************************************)
Marks == {"above", "below"}

Wrapped(n) == IF n >= Modulus THEN n - Modulus ELSE n

\* The userspace publishers store generation | 1, the realtime component
\* the odd number below the generation it is about to complete.
UpdatingGeneration(g) ==
  IF writer.mark = "above" THEN g + 1
  ELSE IF g = 0 THEN Modulus - 1 ELSE g - 1

\* The writer marks the block and has every pin to write.
BeginPublication ==
  /\ ~writer.busy
  /\ reader.busy => reader.begun < ReadWindow
  /\ \E s \in Snapshots :
       writer' = [writer EXCEPT !.busy = TRUE, !.count = Wrapped(writer.count + 2),
                                !.source = s, !.unwritten = Pins]
  /\ generation' = UpdatingGeneration(Wrapped(writer.count + 2))
  /\ reader' = [reader EXCEPT !.begun = IF reader.busy THEN @ + 1 ELSE @]
  /\ UNCHANGED pin

WritePin ==
  /\ writer.busy
  /\ \E p \in writer.unwritten :
       /\ pin' = [pin EXCEPT ![p] = writer.source[p]]
       /\ writer' = [writer EXCEPT !.unwritten = @ \ {p}]
  /\ UNCHANGED <<generation, reader>>

CompletePublication ==
  /\ writer.busy /\ writer.unwritten = {}
  /\ generation' = writer.count
  /\ writer' = [writer EXCEPT !.busy = FALSE, !.published = writer.source]
  /\ UNCHANGED <<pin, reader>>

(***************************************************************************)
(* The reader.  first is the generation it started from, seen what it has  *)
(* read so far, unread what it has still to read, left the attempts that   *)
(* remain, begun (of the model) the publications begun since first was     *)
(* read.  held is the snapshot it acts on.                                 *)
(***************************************************************************)
Odd(g) == g % 2 = 1

EvenIsEnough(first, second) == ~Odd(second)   \* mutant of GenerationIsCoherent: no second look
GenerationIsCoherent(first, second) == first = second /\ ~Odd(second)

\* An odd generation ends the attempt at once; a spent read leaves held.
Retry(left) ==
  reader' = [reader EXCEPT !.busy = FALSE, !.left = IF left = 0 THEN Attempts ELSE left]

BeginRead ==
  /\ ~reader.busy
  /\ IF Odd(generation)
     THEN Retry(reader.left - 1)
     ELSE reader' = [reader EXCEPT !.busy = TRUE, !.first = generation,
                                   !.unread = Pins, !.begun = 0]
  /\ UNCHANGED <<generation, pin, writer>>

ReadPin ==
  /\ reader.busy
  /\ \E p \in reader.unread :
       reader' = [reader EXCEPT !.seen[p] = pin[p], !.unread = @ \ {p}]
  /\ UNCHANGED <<generation, pin, writer>>

EndRead ==
  /\ reader.busy /\ reader.unread = {}
  /\ IF GenerationIsCoherent(reader.first, generation)
     THEN reader' = [reader EXCEPT !.busy = FALSE, !.left = Attempts, !.held = reader.seen]
     ELSE Retry(reader.left - 1)
  /\ UNCHANGED <<generation, pin, writer>>

Init ==
  /\ generation = 0
  /\ pin = Initial
  /\ writer \in [busy: {FALSE}, mark: Marks, count: {0}, source: {Initial},
                 unwritten: {{}}, published: {Initial}]
  /\ reader = [busy |-> FALSE, first |-> 0, seen |-> Initial, unread |-> {},
               left |-> Attempts, begun |-> 0, held |-> Initial]

\* The writer may stop anywhere: a process killed in mid-publication leaves
\* its mark on the block for good.
Next == \/ BeginPublication \/ WritePin \/ CompletePublication
        \/ BeginRead \/ ReadPin \/ EndRead

Spec == Init /\ [][Next]_vars

(***************************************************************************)
(* Properties.                                                             *)
(***************************************************************************)
TypeOK ==
  /\ generation \in 0 .. Modulus - 1
  /\ pin \in Snapshots
  /\ writer \in [busy: BOOLEAN, mark: Marks, count: 0 .. Modulus - 1,
                 source: Snapshots, unwritten: SUBSET Pins, published: Snapshots]
  /\ reader \in [busy: BOOLEAN, first: 0 .. Modulus - 1, seen: Snapshots,
                 unread: SUBSET Pins, left: 1 .. Attempts, begun: 0 .. ReadWindow,
                 held: Snapshots]

Atomic == INSTANCE AtomicSnapshot
            WITH current <- writer.published, held <- reader.held

\* The block of pins implements the atomic snapshot: whatever the servo
\* thread or the task monitor accepts is one publication, and the last one
\* completed, although writer and reader interleave pin by pin
\* (read_pendant, refresh_task_snapshot, read_controller_fault_snapshot).
AtomicSnapshotSpec == Atomic!AtomicSpec
=============================================================================
