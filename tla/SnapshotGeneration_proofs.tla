---------------------- MODULE SnapshotGeneration_proofs ----------------------
(***************************************************************************)
(* The generation-guarded block of pins implements the atomic snapshot for *)
(* every set of pins, every modulus and every number of attempts, as long  *)
(* as fewer than half the generations pass during one attempt.             *)
(***************************************************************************)
EXTENDS SnapshotGeneration, TLAPS

\* The writer's part: an idle writer has left its published snapshot under
\* an even generation; a busy one has marked the block, and each pin holds
\* the new value or the published one.
WriterInv ==
  /\ ~Odd(writer.count)
  /\ IF writer.busy
     THEN /\ Odd(generation)
          /\ \A p \in Pins \ writer.unwritten : pin[p] = writer.source[p]
     ELSE generation = writer.count /\ pin = writer.published

\* The reader's part: the generation it started from is the writer's, less
\* the publications begun since; until one begins nothing it reads changes.
ReaderInv ==
  reader.busy =>
    /\ ~Odd(reader.first)
    /\ writer.count = Wrapped(reader.first + 2 * reader.begun)
    /\ reader.begun = 0 =>
         /\ ~writer.busy
         /\ \A p \in Pins \ reader.unread : reader.seen[p] = pin[p]

SnapshotInv == TypeOK /\ WriterInv /\ ReaderInv

\* An even generation below an even modulus has an odd one on both sides,
\* and the next even one after it.
LEMMA Generations ==
  ASSUME NEW g \in 0 .. Modulus - 1, ~Odd(g)
  PROVE  /\ Wrapped(g + 2) \in 0 .. Modulus - 1 /\ ~Odd(Wrapped(g + 2))
         /\ g + 1 \in 0 .. Modulus - 1 /\ Odd(g + 1)
         /\ g > 0 => g - 1 \in 0 .. Modulus - 1 /\ Odd(g - 1)
         /\ Odd(Modulus - 1)
BY GenerationAssumption, SMT DEF Odd, Wrapped

\* Advancing the writer's counter advances the distance from the reader's.
LEMMA Distance ==
  ASSUME NEW f \in 0 .. Modulus - 1, NEW n \in 0 .. ReadWindow - 1
  PROVE  Wrapped(Wrapped(f + 2 * n) + 2) = Wrapped(f + 2 * (n + 1))
BY GenerationAssumption, SMT DEF Wrapped

\* Within the read window equal generations mean no publication between.
LEMMA NoWrap ==
  ASSUME NEW f \in 0 .. Modulus - 1, NEW n \in 0 .. ReadWindow,
         Wrapped(f + 2 * n) = f
  PROVE  n = 0
BY GenerationAssumption, SMT DEF Wrapped

LEMMA InitInv == Init => SnapshotInv
<1> SUFFICES ASSUME Init PROVE SnapshotInv
  OBVIOUS
<1>1. PICK m \in Marks :
        writer = [busy |-> FALSE, mark |-> m, count |-> 0, source |-> Initial,
                  unwritten |-> {}, published |-> Initial]
  <2>1. writer \in [busy: {FALSE}, mark: Marks, count: {0}, source: {Initial},
                    unwritten: {{}}, published: {Initial}]
    BY DEF Init
  <2> QED BY <2>1
<1>2. TypeOK
  <2>1. 0 \in 0 .. Modulus - 1 /\ 0 \in 0 .. ReadWindow /\ Attempts \in 1 .. Attempts
    BY GenerationAssumption
  <2>2. {} \in SUBSET Pins /\ Initial \in Snapshots
    BY PinAssumption
  <2>3. writer \in [busy: BOOLEAN, mark: Marks, count: 0 .. Modulus - 1,
                 source: Snapshots, unwritten: SUBSET Pins, published: Snapshots]
    BY <1>1, <2>1, <2>2
  <2>4. reader \in [busy: BOOLEAN, first: 0 .. Modulus - 1, seen: Snapshots,
                 unread: SUBSET Pins, left: 1 .. Attempts, begun: 0 .. ReadWindow,
                 held: Snapshots]
    BY <2>1, <2>2 DEF Init
  <2> QED BY <2>1, <2>2, <2>3, <2>4 DEF Init, TypeOK
<1>4. WriterInv
  BY <1>1, SMT DEF Init, WriterInv, Odd
<1>3. ReaderInv
  BY DEF Init, ReaderInv
<1> QED BY <1>2, <1>3, <1>4 DEF SnapshotInv

LEMMA BeginPublicationInv == SnapshotInv /\ BeginPublication => SnapshotInv'
<1> SUFFICES ASSUME SnapshotInv, BeginPublication PROVE SnapshotInv'
  OBVIOUS
<1> USE DEF SnapshotInv, TypeOK
<1> DEFINE next == Wrapped(writer.count + 2)
<1>1. PICK s \in Snapshots :
        writer' = [writer EXCEPT !.busy = TRUE, !.count = next,
                                 !.source = s, !.unwritten = Pins]
  BY DEF BeginPublication
<1>2. next \in 0 .. Modulus - 1 /\ ~Odd(next)
  BY Generations DEF WriterInv
<1> HIDE DEF next
<1>3. generation' \in 0 .. Modulus - 1 /\ Odd(generation')
  <2>1. generation' = UpdatingGeneration(next)
    BY DEF BeginPublication, next
  <2> QED BY <1>2, <2>1, Generations, GenerationAssumption DEF UpdatingGeneration
<1>4. reader' = [reader EXCEPT !.begun = IF reader.busy THEN @ + 1 ELSE @]
  BY DEF BeginPublication
<1>5. TypeOK'
  <2>1. writer' \in [busy: BOOLEAN, mark: Marks, count: 0 .. Modulus - 1,
                 source: Snapshots, unwritten: SUBSET Pins, published: Snapshots]
    BY <1>1, <1>2
  <2>2. (IF reader.busy THEN reader.begun + 1 ELSE reader.begun) \in 0 .. ReadWindow
    BY GenerationAssumption DEF BeginPublication
  <2>3. reader' \in [busy: BOOLEAN, first: 0 .. Modulus - 1, seen: Snapshots,
                 unread: SUBSET Pins, left: 1 .. Attempts, begun: 0 .. ReadWindow,
                 held: Snapshots]
    BY <1>4, <2>2
  <2> QED BY <1>3, <2>1, <2>3 DEF BeginPublication
<1>6. WriterInv'
  BY <1>1, <1>2, <1>3 DEF WriterInv, Odd
<1>7. ReaderInv'
  <2> SUFFICES ASSUME reader'.busy PROVE ReaderInv'
    BY DEF ReaderInv
  <2>1. reader.busy /\ reader'.first = reader.first /\ reader'.begun = reader.begun + 1
    BY <1>4
  <2>2. reader.begun \in 0 .. ReadWindow - 1
    BY <2>1, GenerationAssumption DEF BeginPublication
  <2>3. writer'.count = Wrapped(reader'.first + 2 * reader'.begun)
    <3>1. writer.count = Wrapped(reader.first + 2 * reader.begun)
      BY <2>1 DEF ReaderInv
    <3>2. writer'.count = Wrapped(writer.count + 2)
      BY <1>1 DEF next
    <3>3. reader.first \in 0 .. Modulus - 1
      OBVIOUS
    <3> QED BY <2>1, <2>2, <3>1, <3>2, <3>3, Distance
  <2>4. reader'.begun # 0
    BY <2>1, <2>2, GenerationAssumption
  <2>5. ~Odd(reader'.first)
    BY <2>1 DEF ReaderInv, Odd
  <2> QED BY <2>3, <2>4, <2>5 DEF ReaderInv
<1> QED BY <1>5, <1>6, <1>7

LEMMA WritePinInv == SnapshotInv /\ WritePin => SnapshotInv'
<1> SUFFICES ASSUME SnapshotInv, WritePin PROVE SnapshotInv'
  OBVIOUS
<1> USE DEF SnapshotInv, TypeOK
<1>1. PICK p \in writer.unwritten :
        /\ pin' = [pin EXCEPT ![p] = writer.source[p]]
        /\ writer' = [writer EXCEPT !.unwritten = @ \ {p}]
  BY DEF WritePin
<1>2. TypeOK'
  BY <1>1 DEF WritePin, Snapshots
<1>3. WriterInv'
  BY <1>1 DEF WritePin, WriterInv, Odd, Snapshots
<1>4. ReaderInv'
  BY <1>1 DEF WritePin, ReaderInv, Odd, Wrapped
<1> QED BY <1>2, <1>3, <1>4

LEMMA CompletePublicationInv == SnapshotInv /\ CompletePublication => SnapshotInv'
<1> SUFFICES ASSUME SnapshotInv, CompletePublication PROVE SnapshotInv'
  OBVIOUS
<1> USE DEF SnapshotInv, TypeOK
<1>1. TypeOK'
  BY DEF CompletePublication
<1>2. WriterInv'
  <2>1. \A p \in Pins : pin[p] = writer.source[p]
    BY DEF CompletePublication, WriterInv
  <2>2. pin = writer.source
    BY <2>1 DEF Snapshots
  <2> QED BY <2>2 DEF CompletePublication, WriterInv, Odd
<1>3. ReaderInv'
  BY DEF CompletePublication, ReaderInv, Odd, Wrapped
<1> QED BY <1>1, <1>2, <1>3

\* A failed attempt only ends the read or counts it down.
LEMMA RetryKeeps ==
  ASSUME TypeOK, Retry(reader.left - 1)
  PROVE  /\ ~reader'.busy /\ reader'.held = reader.held
         /\ reader' \in [busy: BOOLEAN, first: 0 .. Modulus - 1, seen: Snapshots,
                 unread: SUBSET Pins, left: 1 .. Attempts, begun: 0 .. ReadWindow,
                 held: Snapshots]
<1>1. (IF reader.left - 1 = 0 THEN Attempts ELSE reader.left - 1) \in 1 .. Attempts
  BY GenerationAssumption DEF TypeOK
<1> QED BY <1>1 DEF TypeOK, Retry

LEMMA BeginReadInv == SnapshotInv /\ BeginRead => SnapshotInv'
<1> SUFFICES ASSUME SnapshotInv, BeginRead PROVE SnapshotInv'
  OBVIOUS
<1> USE DEF SnapshotInv
<1>1. WriterInv'
  BY DEF BeginRead, WriterInv, Odd
<1>2. CASE Odd(generation)
  <2>1. Retry(reader.left - 1)
    BY <1>2 DEF BeginRead
  <2>2. TypeOK'
    BY <2>1, RetryKeeps DEF BeginRead, TypeOK
  <2>3. ReaderInv'
    BY <2>1, RetryKeeps DEF ReaderInv
  <2> QED BY <1>1, <2>2, <2>3
<1>3. CASE ~Odd(generation)
  <2>1. reader' = [reader EXCEPT !.busy = TRUE, !.first = generation,
                                 !.unread = Pins, !.begun = 0]
    BY <1>3 DEF BeginRead
  <2>2. ~writer.busy /\ generation = writer.count
    BY <1>3 DEF WriterInv
  <2>3. TypeOK'
    <3>1. 0 \in 0 .. ReadWindow
      BY GenerationAssumption
    <3>2. reader' \in [busy: BOOLEAN, first: 0 .. Modulus - 1, seen: Snapshots,
                 unread: SUBSET Pins, left: 1 .. Attempts, begun: 0 .. ReadWindow,
                 held: Snapshots]
      BY <2>1, <3>1 DEF TypeOK
    <3> QED BY <3>2 DEF BeginRead, TypeOK
  <2>4. Wrapped(generation + 2 * 0) = generation
    BY GenerationAssumption DEF TypeOK, Wrapped
  <2>5. reader'.first = generation /\ reader'.begun = 0 /\ reader'.unread = Pins
    BY <2>1 DEF TypeOK
  <2>6. writer' = writer
    BY DEF BeginRead
  <2>7. ~Odd(reader'.first)
    BY <1>3, <2>5
  <2>8. writer'.count = Wrapped(reader'.first + 2 * reader'.begun)
    BY <2>2, <2>4, <2>5, <2>6
  <2>9. ReaderInv'
    BY <2>2, <2>5, <2>6, <2>7, <2>8 DEF ReaderInv
  <2> QED BY <1>1, <2>3, <2>9
<1> QED BY <1>2, <1>3

LEMMA ReadPinInv == SnapshotInv /\ ReadPin => SnapshotInv'
<1> SUFFICES ASSUME SnapshotInv, ReadPin PROVE SnapshotInv'
  OBVIOUS
<1> USE DEF SnapshotInv, TypeOK
<1>1. PICK p \in reader.unread :
        reader' = [reader EXCEPT !.seen[p] = pin[p], !.unread = @ \ {p}]
  BY DEF ReadPin
<1>2. TypeOK'
  BY <1>1 DEF ReadPin, Snapshots
<1>3. WriterInv'
  BY DEF ReadPin, WriterInv, Odd
<1>4. ReaderInv'
  BY <1>1 DEF ReadPin, ReaderInv, Odd, Wrapped, Snapshots
<1> QED BY <1>2, <1>3, <1>4

\* A read the reader accepts holds the published snapshot, whole.
LEMMA AcceptedIsPublished ==
  ASSUME SnapshotInv, EndRead, GenerationIsCoherent(reader.first, generation)
  PROVE  reader.seen = writer.published
<1> USE DEF SnapshotInv, TypeOK
<1>1. ~writer.busy /\ generation = writer.count /\ pin = writer.published
  BY DEF WriterInv, GenerationIsCoherent
<1>2. Wrapped(reader.first + 2 * reader.begun) = reader.first
  BY <1>1 DEF EndRead, ReaderInv, GenerationIsCoherent
<1>3. reader.begun = 0
  BY <1>2, NoWrap
<1>4. \A p \in Pins : reader.seen[p] = pin[p]
  BY <1>3 DEF EndRead, ReaderInv
<1> QED BY <1>1, <1>4 DEF Snapshots

LEMMA EndReadInv == SnapshotInv /\ EndRead => SnapshotInv'
<1> SUFFICES ASSUME SnapshotInv, EndRead PROVE SnapshotInv'
  OBVIOUS
<1> USE DEF SnapshotInv
<1>1. WriterInv'
  BY DEF EndRead, WriterInv, Odd
<1>2. ~reader'.busy /\ TypeOK'
  <2>1. CASE GenerationIsCoherent(reader.first, generation)
    <3>1. reader' = [reader EXCEPT !.busy = FALSE, !.left = Attempts, !.held = reader.seen]
      BY <2>1 DEF EndRead
    <3>2. Attempts \in 1 .. Attempts
      BY GenerationAssumption
    <3> QED BY <3>1, <3>2 DEF EndRead, TypeOK
  <2>2. CASE ~GenerationIsCoherent(reader.first, generation)
    <3>1. Retry(reader.left - 1)
      BY <2>2 DEF EndRead
    <3> QED BY <3>1, RetryKeeps DEF EndRead, TypeOK
  <2> QED BY <2>1, <2>2
<1>3. ReaderInv'
  BY <1>2 DEF ReaderInv
<1> QED BY <1>1, <1>2, <1>3

LEMMA StutterInv == SnapshotInv /\ UNCHANGED vars => SnapshotInv'
BY DEF SnapshotInv, TypeOK, WriterInv, ReaderInv, Odd, Wrapped, vars

\* The inductive invariant: the block is consistent outside a publication
\* and a reader knows how far the writer has come since it started.
THEOREM SnapshotCorrect == Spec => []SnapshotInv
<1>1. SnapshotInv /\ [Next]_vars => SnapshotInv'
  BY BeginPublicationInv, WritePinInv, CompletePublicationInv,
     BeginReadInv, ReadPinInv, EndReadInv, StutterInv DEF Next
<1> QED BY InitInv, <1>1, PTL DEF Spec

\* Each step of the pins is a step of the atomic snapshot, or none.
LEMMA Steps ==
  SnapshotInv /\ [Next]_vars => [Atomic!AtomicNext]_(Atomic!atomicVars)
<1> SUFFICES ASSUME SnapshotInv, [Next]_vars
             PROVE  [Atomic!AtomicNext]_(Atomic!atomicVars)
  OBVIOUS
<1> USE DEF SnapshotInv, TypeOK, Atomic!AtomicNext, Atomic!atomicVars
<1>1. CASE BeginPublication
  BY <1>1 DEF BeginPublication
<1>2. CASE WritePin
  BY <1>2 DEF WritePin
<1>3. CASE CompletePublication
  BY <1>3 DEF CompletePublication, Atomic!Publish
<1>4. CASE BeginRead
  BY <1>4, RetryKeeps DEF BeginRead
<1>5. CASE ReadPin
  BY <1>5 DEF ReadPin
<1>6. CASE EndRead
  <2>1. CASE GenerationIsCoherent(reader.first, generation)
    <3>1. reader'.held = reader.seen /\ writer' = writer
      BY <1>6, <2>1 DEF EndRead
    <3> QED BY <1>6, <2>1, <3>1, AcceptedIsPublished DEF Atomic!Accept
  <2>2. CASE ~GenerationIsCoherent(reader.first, generation)
    BY <1>6, <2>2, RetryKeeps DEF EndRead
  <2> QED BY <2>1, <2>2
<1>7. CASE UNCHANGED vars
  BY <1>7 DEF vars
<1> QED BY <1>1, <1>2, <1>3, <1>4, <1>5, <1>6, <1>7 DEF Next

\* The pins implement the atomic snapshot for every block, width and window:
\* no torn and no superseded snapshot is ever accepted.
THEOREM PinsAreAtomic == Spec => AtomicSnapshotSpec
<1>1. Init => Atomic!AtomicInit
  BY DEF Init, Atomic!AtomicInit
<1> QED BY <1>1, SnapshotCorrect, Steps, PTL DEF Spec, AtomicSnapshotSpec, Atomic!AtomicSpec
=============================================================================
