------------------------ MODULE SessionJournal_proofs ------------------------
(***************************************************************************)
(* Acknowledged records survive and lines are whole, for any number of     *)
(* supervisors and of faults.                                              *)
(***************************************************************************)
EXTENDS SessionJournal, TLAPS

SupervisorRecords == [stage: Stages, step: Steps \cup {"dead"}, written: 0 .. 3,
                      failure: {"append", None}, result: Results \cup {None}]

Locked == {"separate", "syncRepair", "write", "sync"}

\* Who is between flock and unlock is who holds the lock.
LockIsExclusive == \A w \in Supervisors : supervisor[w].step \in Locked => lock = w

\* How the file ends when so many pieces of the record have been written.
EndsAfter(record, written) ==
  LET n == Len(file)
  IN  /\ written = 0 => EndsInNewline
      /\ written = 1 => /\ n >= 1 /\ file[n] = Piece(record, "start")
                        /\ n = 1 \/ file[n - 1] = Newline
      /\ written = 2 => /\ n >= 2 /\ file[n] = Piece(record, "end")
                        /\ file[n - 1] = Piece(record, "start")
                        /\ n = 2 \/ file[n - 2] = Newline
      /\ written = 3 => n >= 3 /\ LineAt(record, n - 2)

CursorOK(w) ==
  LET s == supervisor[w]
  IN  /\ s.step = "syncRepair" => EndsInNewline
      /\ s.step = "write" => /\ s.stage # "open" /\ s.written \in 0 .. 2
                             /\ EndsAfter(<<w, s.stage>>, s.written)
      /\ s.step = "sync" => s.stage # "open" /\ EndsAfter(<<w, s.stage>>, 3)
      /\ s.step \in {"lock", "separate", "syncRepair"} => s.written = 0

AcknowledgedIsSynced ==
  \A record \in acknowledged : \E i \in 1 .. synced - 2 : LineAt(record, i)

JournalInv ==
  /\ TypeOK
  /\ LockIsExclusive
  /\ \A w \in Supervisors : CursorOK(w)
  /\ LinesAreWhole
  /\ AcknowledgedIsSynced

-----------------------------------------------------------------------------
\* What an append or a truncation leaves of the lines.
LEMMA NewlineIsNoPiece ==
  \A record, part \in {"start", "end"} : Piece(record, part) # Newline
BY DEF Piece, Newline

LEMMA RangesGrow ==
  ASSUME NEW a \in Nat, NEW n \in Nat, NEW b \in a .. n
  PROVE  1 .. a - 2 \subseteq 1 .. b - 2
OBVIOUS

LEMMA LinesSurviveGrowth ==
  ASSUME file \in Seq(Pieces), NEW piece \in Pieces, file' = Append(file, piece),
         NEW record, NEW i \in 1 .. Len(file) - 2, LineAt(record, i)
  PROVE  LineAt(record, i)'
BY DEF LineAt

LEMMA WholeAfterAppend ==
  ASSUME file \in Seq(Pieces), NEW piece \in Pieces, file' = Append(file, piece),
         LinesAreWhole,
         piece.part = "start" => EndsInNewline,
         piece.part = "end" =>
           Len(file) >= 1 /\ file[Len(file)] = Piece(piece.record, "start")
  PROVE  LinesAreWhole'
<1> SUFFICES ASSUME NEW i \in 1 .. Len(file')
             PROVE  /\ file'[i].part = "start" => i = 1 \/ file'[i - 1] = Newline
                    /\ file'[i].part = "end" =>
                         i > 1 /\ file'[i - 1] = Piece(file'[i].record, "start")
  BY DEF LinesAreWhole
<1>1. Len(file') = Len(file) + 1 /\ Len(file) \in Nat
      /\ file'[Len(file) + 1] = piece
      /\ \A j \in 1 .. Len(file) : file'[j] = file[j]
  OBVIOUS
<1>2. CASE i \in 1 .. Len(file)
  <2>1. i > 1 => i - 1 \in 1 .. Len(file)
    BY <1>1, <1>2
  <2> QED
    BY <1>1, <1>2, <2>1 DEF LinesAreWhole
<1>3. CASE i = Len(file) + 1
  <2>1. CASE file = <<>>
    BY <1>1, <1>3, <2>1
  <2>2. CASE file # <<>>
    <3>1. Len(file) \in 1 .. Len(file) /\ i - 1 = Len(file)
      BY <1>1, <1>3, <2>2
    <3> QED
      BY <1>1, <1>3, <2>2, <3>1 DEF EndsInNewline
  <2> QED
    BY <2>1, <2>2
<1> QED
  BY <1>1, <1>2, <1>3

-----------------------------------------------------------------------------
\* What an append that is over leaves of its supervisor.
LEMMA GoesIs ==
  ASSUME NEW s \in SupervisorRecords, NEW stage \in Stages
  PROVE  /\ Goes(s, stage) \in SupervisorRecords
         /\ Goes(s, stage).step = "lock" /\ Goes(s, stage).written = 0
<1>1. "lock" \in Steps /\ 0 \in 0 .. 3
  BY DEF Steps
<1> QED
  BY <1>1 DEF SupervisorRecords, Goes

LEMMA EndedIs ==
  ASSUME NEW result \in Results \cup {None}
  PROVE  /\ Ended(result) \in SupervisorRecords
         /\ Ended(result).step = "dead" /\ Ended(result).written = 0
<1>1. "open" \in Stages /\ 0 \in 0 .. 3
  BY DEF Stages
<1> QED
  BY <1>1 DEF SupervisorRecords, Ended

LEMMA FinishedIs ==
  ASSUME NEW s
  PROVE  /\ Finished(s) \in SupervisorRecords
         /\ Finished(s).step = "dead" /\ Finished(s).written = 0
<1>1. CASE s.failure = None
  BY <1>1, EndedIs DEF Finished, Results
<1>2. CASE s.failure # None
  BY <1>2, EndedIs DEF Finished, Results
<1> QED
  BY <1>1, <1>2

LEMMA SucceededIs ==
  ASSUME NEW s \in SupervisorRecords, NEW t \in Succeeded(s)
  PROVE  t \in SupervisorRecords /\ t.step \in {"lock", "dead"} /\ t.written = 0
<1>1. s.stage \in Stages
  BY DEF SupervisorRecords
<1>2. t = Finished(s) \/ t = Ended("startupError") \/ \E stage \in Stages : t = Goes(s, stage)
  BY <1>1 DEF Succeeded, Stages, Events
<1>3. CASE t = Finished(s)
  BY <1>3, FinishedIs
<1>4. CASE t = Ended("startupError")
  BY <1>4, EndedIs DEF Results
<1>5. CASE \E stage \in Stages : t = Goes(s, stage)
  BY <1>5, GoesIs
<1> QED
  BY <1>2, <1>3, <1>4, <1>5

LEMMA FailedIs ==
  ASSUME NEW s \in SupervisorRecords
  PROVE  /\ Failed(s) \in SupervisorRecords /\ Failed(s).step \in {"lock", "dead"}
         /\ Failed(s).written = 0
<1> DEFINE noted == [s EXCEPT !.failure = "append"]
<1>1. s.stage \in Stages
  BY DEF SupervisorRecords
<1>2. noted \in SupervisorRecords
  BY DEF SupervisorRecords
<1>3. \/ Failed(s) = Ended("journalError") \/ Failed(s) = Ended("startupError")
      \/ Failed(s) = Goes(noted, "processTerminated") \/ Failed(s) = Finished(noted)
  BY <1>1 DEF Failed, Stages, Events
<1> HIDE DEF noted
<1>4. CASE Failed(s) = Ended("journalError") \/ Failed(s) = Ended("startupError")
  BY <1>4, EndedIs DEF Results
<1>5. CASE Failed(s) = Goes(noted, "processTerminated")
  BY <1>2, <1>5, GoesIs DEF Stages, Events
<1>6. CASE Failed(s) = Finished(noted)
  BY <1>6, FinishedIs
<1> QED
  BY <1>3, <1>4, <1>5, <1>6

\* The cursor of a supervisor is about the end of the file.
LEMMA CursorFollowsTheFile ==
  ASSUME NEW v \in Supervisors, CursorOK(v), file' = file, supervisor'[v] = supervisor[v]
  PROVE  CursorOK(v)'
BY DEF CursorOK, EndsAfter, EndsInNewline, LineAt

\* A supervisor that lets go of the file leaves it as the others know it.
LEMMA ReleasePreserves ==
  ASSUME JournalInv, NEW w \in Supervisors, NEW t \in SupervisorRecords,
         t.step \in {"lock", "dead"}, t.written = 0,
         supervisor' = [supervisor EXCEPT ![w] = t],
         lock' = IF lock = w THEN None ELSE lock,
         file' = file, synced' \in synced .. Len(file),
         acknowledged' \subseteq Records, faults' \in 0 .. MaxFaults,
         \A record \in acknowledged' : \E i \in 1 .. synced' - 2 : LineAt(record, i)
  PROVE  JournalInv'
<1> USE DEF JournalInv
<1>1. supervisor \in [Supervisors -> SupervisorRecords]
  BY DEF TypeOK, SupervisorRecords
<1>2. /\ supervisor' \in [Supervisors -> SupervisorRecords]
      /\ supervisor'[w] = t
      /\ \A v \in Supervisors : v # w => supervisor'[v] = supervisor[v]
  BY <1>1
<1>3. TypeOK'
  BY <1>2 DEF TypeOK, SupervisorRecords
<1>4. LockIsExclusive'
  BY <1>2 DEF LockIsExclusive, Locked
<1>5. (\A v \in Supervisors : CursorOK(v))'
  <2>1. CursorOK(w)'
    BY <1>2 DEF CursorOK
  <2>2. \A v \in Supervisors : v # w => CursorOK(v)'
    BY <1>2, CursorFollowsTheFile
  <2> QED
    BY <2>1, <2>2
<1>6. LinesAreWhole' /\ AcknowledgedIsSynced'
  BY DEF LinesAreWhole, AcknowledgedIsSynced, LineAt
<1> QED
  BY <1>3, <1>4, <1>5, <1>6

\* A step of the holder of the lock that keeps it.
LEMMA HolderPreserves ==
  ASSUME JournalInv, NEW w \in Supervisors, NEW t \in SupervisorRecords,
         supervisor' = [supervisor EXCEPT ![w] = t],
         lock \in {w, None}, lock' = w,
         file' \in Seq(Pieces), synced' \in 0 .. Len(file'),
         UNCHANGED <<acknowledged, faults>>,
         CursorOK(w)', LinesAreWhole', AcknowledgedIsSynced'
  PROVE  JournalInv'
<1> USE DEF JournalInv
<1>1. supervisor \in [Supervisors -> SupervisorRecords] /\ None \notin Supervisors
  BY JournalAssumption DEF TypeOK, SupervisorRecords
<1>2. /\ supervisor' \in [Supervisors -> SupervisorRecords]
      /\ supervisor'[w] = t
      /\ \A v \in Supervisors : v # w => supervisor'[v] = supervisor[v]
  BY <1>1
<1>3. TypeOK'
  BY <1>2 DEF TypeOK, SupervisorRecords
<1>4. \A v \in Supervisors : v # w => supervisor'[v].step \notin Locked
  BY <1>1, <1>2 DEF LockIsExclusive
<1>5. LockIsExclusive'
  BY <1>4 DEF LockIsExclusive
<1>6. \A v \in Supervisors : v # w => CursorOK(v)'
  BY <1>2, <1>4 DEF CursorOK, Locked
<1> QED
  BY <1>3, <1>5, <1>6

LEMMA LockPreserves ==
  ASSUME JournalInv, NEW w \in Supervisors, Lock(w) PROVE JournalInv'
<1> USE DEF JournalInv
<1> DEFINE t == [supervisor[w] EXCEPT !.step = "separate"]
<1>1. supervisor \in [Supervisors -> SupervisorRecords] /\ supervisor[w] \in SupervisorRecords
  BY DEF TypeOK, SupervisorRecords
<1>2. t \in SupervisorRecords /\ t.step = "separate" /\ t.written = supervisor[w].written
  BY <1>1 DEF SupervisorRecords, Steps
<1>3. supervisor' = [supervisor EXCEPT ![w] = t] /\ supervisor[w].step = "lock"
      /\ lock = None /\ lock' = w
      /\ UNCHANGED <<file, synced, faults, acknowledged>>
  BY <1>1 DEF Lock, MayLock
<1> HIDE DEF t
<1>4. supervisor'[w] = t
  BY <1>1, <1>3
<1>5. CursorOK(w)'
  BY <1>2, <1>3, <1>4 DEF CursorOK
<1>6. LinesAreWhole' /\ AcknowledgedIsSynced'
  BY <1>3 DEF LinesAreWhole, AcknowledgedIsSynced, LineAt
<1>7. file' \in Seq(Pieces) /\ synced' \in 0 .. Len(file')
  BY <1>3 DEF TypeOK
<1> QED
  BY <1>2, <1>3, <1>5, <1>6, <1>7, HolderPreserves

LEMMA ReturnPreserves ==
  ASSUME JournalInv, NEW w \in Supervisors, Return(w), lock = w,
         file' = file, synced' \in synced .. Len(file),
         supervisor[w].stage # "open" =>
           \E i \in 1 .. synced' - 2 : LineAt(<<w, supervisor[w].stage>>, i)
  PROVE  JournalInv'
<1> USE DEF JournalInv
<1>1. supervisor[w] \in SupervisorRecords /\ synced \in Nat /\ Len(file) \in Nat
  BY DEF TypeOK, SupervisorRecords
<1>2. PICK t \in Succeeded(supervisor[w]) : supervisor' = [supervisor EXCEPT ![w] = t]
  BY DEF Return
<1>3. t \in SupervisorRecords /\ t.step \in {"lock", "dead"} /\ t.written = 0
  BY <1>1, <1>2, SucceededIs
<1>4. acknowledged' \subseteq Records
  BY <1>1 DEF Return, TypeOK, Records, SupervisorRecords, Stages
<1>5. \A record \in acknowledged' : \E i \in 1 .. synced' - 2 : LineAt(record, i)
  <2> SUFFICES ASSUME NEW record \in acknowledged'
               PROVE  \E i \in 1 .. synced' - 2 : LineAt(record, i)
    OBVIOUS
  <2>1. 1 .. synced - 2 \subseteq 1 .. synced' - 2
    BY <1>1, RangesGrow
  <2>2. CASE record \in acknowledged
    BY <2>1, <2>2 DEF AcknowledgedIsSynced
  <2>3. CASE record \notin acknowledged
    <3>1. supervisor[w].stage # "open" /\ record = <<w, supervisor[w].stage>>
      BY <2>3 DEF Return
    <3> QED
      BY <3>1
  <2> QED
    BY <2>2, <2>3
<1>6. faults' \in 0 .. MaxFaults /\ lock' = IF lock = w THEN None ELSE lock
  BY DEF Return, TypeOK
<1> QED
  BY <1>2, <1>3, <1>4, <1>5, <1>6, ReleasePreserves

\* From the separation of the last record to the next.
LEMMA ContinuePreserves ==
  ASSUME JournalInv, NEW w \in Supervisors, Continue(w), lock = w, EndsInNewline,
         supervisor[w].written = 0,
         file' = file, synced' \in synced .. Len(file)
  PROVE  JournalInv'
<1> USE DEF JournalInv
<1>1. supervisor \in [Supervisors -> SupervisorRecords] /\ supervisor[w] \in SupervisorRecords
      /\ synced \in Nat /\ Len(file) \in Nat
  BY DEF TypeOK, SupervisorRecords
<1>2. CASE supervisor[w].stage = "open"
  BY <1>2, ReturnPreserves DEF Continue
<1>3. CASE supervisor[w].stage # "open"
  <2> DEFINE t == [supervisor[w] EXCEPT !.step = "write"]
  <2>1. t \in SupervisorRecords /\ t.step = "write" /\ t.written = 0 /\ t.stage # "open"
    BY <1>1, <1>3 DEF SupervisorRecords, Steps
  <2>2. supervisor' = [supervisor EXCEPT ![w] = t] /\ UNCHANGED <<lock, faults, acknowledged>>
    BY <1>1, <1>3 DEF Continue
  <2> HIDE DEF t
  <2>3. supervisor'[w] = t
    BY <1>1, <2>2
  <2>4. CursorOK(w)'
    <3>1. EndsInNewline'
      BY DEF EndsInNewline
    <3> QED
      BY <2>1, <2>3, <3>1 DEF CursorOK, EndsAfter
  <2>5. LinesAreWhole'
    BY DEF LinesAreWhole
  <2>6. AcknowledgedIsSynced'
    <3>1. 1 .. synced - 2 \subseteq 1 .. synced' - 2
      BY <1>1, RangesGrow
    <3> QED
      BY <2>2, <3>1 DEF AcknowledgedIsSynced, LineAt
  <2>7. file' \in Seq(Pieces) /\ synced' \in 0 .. Len(file')
    BY <1>1 DEF TypeOK
  <2> QED
    BY <2>1, <2>2, <2>4, <2>5, <2>6, <2>7, HolderPreserves
<1> QED
  BY <1>2, <1>3

\* Appending a piece to the file keeps what has been acknowledged.
LEMMA GrowthKeepsAcknowledged ==
  ASSUME TypeOK, AcknowledgedIsSynced, NEW piece \in Pieces, file' = Append(file, piece),
         UNCHANGED <<synced, acknowledged>>
  PROVE  AcknowledgedIsSynced'
<1>1. file \in Seq(Pieces) /\ Len(file) \in Nat /\ synced \in 0 .. Len(file)
  BY DEF TypeOK
<1>2. \A i \in 1 .. synced - 2 : i \in 1 .. Len(file) - 2
  BY <1>1
<1>3. \A record : \A i \in 1 .. synced - 2 : LineAt(record, i) => LineAt(record, i)'
  BY <1>1, <1>2, LinesSurviveGrowth
<1> QED
  BY <1>3 DEF AcknowledgedIsSynced

LEMMA SeparatePreserves ==
  ASSUME JournalInv, NEW w \in Supervisors, Separate(w) PROVE JournalInv'
<1> USE DEF JournalInv
<1>1. /\ supervisor \in [Supervisors -> SupervisorRecords] /\ supervisor[w] \in SupervisorRecords
      /\ file \in Seq(Pieces) /\ Len(file) \in Nat /\ synced \in 0 .. Len(file)
  BY DEF TypeOK, SupervisorRecords
<1>2. supervisor[w].step = "separate" /\ lock = w /\ supervisor[w].written = 0
  BY DEF Separate, LockIsExclusive, Locked, CursorOK
<1>3. CASE EndsInNewline
  <2>1. Continue(w) /\ file' = file /\ synced' = synced
    BY <1>3 DEF Separate
  <2>2. synced' \in synced .. Len(file)
    BY <1>1, <2>1
  <2> QED
    BY <1>2, <1>3, <2>1, <2>2, ContinuePreserves
<1>4. CASE ~EndsInNewline
  <2> DEFINE t == [supervisor[w] EXCEPT !.step = "syncRepair"]
  <2>1. t \in SupervisorRecords /\ t.step = "syncRepair" /\ t.written = 0
    BY <1>1, <1>2 DEF SupervisorRecords, Steps
  <2>2. /\ supervisor' = [supervisor EXCEPT ![w] = t] /\ lock' = lock
        /\ file' = Append(file, Newline) /\ UNCHANGED <<synced, faults, acknowledged>>
    BY <1>1, <1>4 DEF Separate
  <2> HIDE DEF t
  <2>3. Newline \in Pieces /\ Newline.part = "newline"
    BY DEF Pieces, Newline
  <2>4. supervisor'[w] = t
    BY <1>1, <2>2
  <2>5. EndsInNewline'
    BY <1>1, <2>2, <2>3 DEF EndsInNewline
  <2>6. CursorOK(w)'
    BY <2>1, <2>4, <2>5 DEF CursorOK
  <2>7. LinesAreWhole'
    BY <1>1, <2>2, <2>3, WholeAfterAppend
  <2>8. AcknowledgedIsSynced'
    BY <2>2, <2>3, GrowthKeepsAcknowledged
  <2>9. file' \in Seq(Pieces) /\ synced' \in 0 .. Len(file')
    BY <1>1, <2>2, <2>3
  <2> QED
    BY <1>2, <2>1, <2>2, <2>6, <2>7, <2>8, <2>9, HolderPreserves
<1> QED
  BY <1>3, <1>4

LEMMA SyncRepairPreserves ==
  ASSUME JournalInv, NEW w \in Supervisors, SyncRepair(w) PROVE JournalInv'
<1> USE DEF JournalInv
<1>1. Len(file) \in Nat /\ synced \in 0 .. Len(file)
  BY DEF TypeOK
<1>2. supervisor[w].step = "syncRepair" /\ lock = w /\ supervisor[w].written = 0 /\ EndsInNewline
  BY DEF SyncRepair, LockIsExclusive, Locked, CursorOK
<1>3. Continue(w) /\ file' = file /\ synced' \in synced .. Len(file)
  BY <1>1 DEF SyncRepair
<1> QED
  BY <1>2, <1>3, ContinuePreserves

LEMMA SyncPreserves ==
  ASSUME JournalInv, NEW w \in Supervisors, Sync(w) PROVE JournalInv'
<1> USE DEF JournalInv
<1>1. Len(file) \in Nat /\ synced \in 0 .. Len(file)
  BY DEF TypeOK
<1>2. supervisor[w].step = "sync" /\ lock = w /\ EndsAfter(<<w, supervisor[w].stage>>, 3)
  BY DEF Sync, LockIsExclusive, Locked, CursorOK
<1>3. Return(w) /\ file' = file /\ synced' = Len(file)
  BY DEF Sync, SyncedLength
<1>4. synced' \in synced .. Len(file)
  BY <1>1, <1>3
<1>5. Len(file) - 2 \in 1 .. synced' - 2 /\ LineAt(<<w, supervisor[w].stage>>, Len(file) - 2)
  BY <1>1, <1>2, <1>3 DEF EndsAfter
<1> QED
  BY <1>2, <1>3, <1>4, <1>5, ReturnPreserves

LEMMA EndsGrow ==
  ASSUME file \in Seq(Pieces), NEW record, NEW before \in 0 .. 2, NEW piece \in Pieces,
         EndsAfter(record, before), file' = Append(file, piece),
         before = 0 => piece = Piece(record, "start"),
         before = 1 => piece = Piece(record, "end"),
         before = 2 => piece = Newline
  PROVE  EndsAfter(record, before + 1)'
<1>1. /\ Len(file') = Len(file) + 1 /\ file'[Len(file) + 1] = piece /\ Len(file) \in Nat
      /\ \A j \in 1 .. Len(file) : file'[j] = file[j]
  OBVIOUS
<1>2. CASE before = 0
  <2>1. file = <<>> \/ file[Len(file)] = Newline
    BY <1>2 DEF EndsAfter, EndsInNewline
  <2>2. CASE file = <<>>
    BY <1>1, <1>2, <2>2 DEF EndsAfter
  <2>3. CASE file # <<>> /\ file[Len(file)] = Newline
    <3>1. Len(file) >= 1
      BY <1>1, <2>3
    <3> QED
      BY <1>1, <1>2, <2>3, <3>1 DEF EndsAfter
  <2> QED
    BY <2>1, <2>2, <2>3
<1>3. CASE before = 1
  <2>1. /\ Len(file) >= 1 /\ file[Len(file)] = Piece(record, "start")
        /\ Len(file) = 1 \/ file[Len(file) - 1] = Newline
    BY <1>3 DEF EndsAfter
  <2> QED
    BY <1>1, <1>3, <2>1 DEF EndsAfter
<1>4. CASE before = 2
  <2>1. /\ Len(file) >= 2 /\ file[Len(file)] = Piece(record, "end")
        /\ file[Len(file) - 1] = Piece(record, "start")
        /\ Len(file) = 2 \/ file[Len(file) - 2] = Newline
    BY <1>4 DEF EndsAfter
  <2>2. PICK n \in Nat : n = Len(file)
    BY <1>1
  <2>3. /\ file'[n - 1] = Piece(record, "start") /\ file'[n] = Piece(record, "end")
        /\ file'[n + 1] = Newline
        /\ n = 2 \/ file'[n - 2] = Newline
    BY <1>1, <1>4, <2>1, <2>2
  <2>4. (n - 1) - 1 = n - 2 /\ (n - 1) + 1 = n /\ (n - 1) + 2 = n + 1 /\ (n - 1 = 1 <=> n = 2)
    OBVIOUS
  <2>5. LineAt(record, n - 1)'
    BY <2>3, <2>4 DEF LineAt
  <2>6. Len(file') >= 3 /\ Len(file') - 2 = n - 1
    BY <1>1, <1>4, <2>1, <2>2
  <2> QED
    BY <1>4, <2>5, <2>6 DEF EndsAfter, LineAt
<1> QED
  BY <1>2, <1>3, <1>4

LEMMA WritePreserves ==
  ASSUME JournalInv, NEW w \in Supervisors, Write(w) PROVE JournalInv'
<1> USE DEF JournalInv
<1> DEFINE record == <<w, supervisor[w].stage>>
           written == supervisor[w].written + 1
           piece == Bytes(record)[written]
           t == [supervisor[w] EXCEPT !.written = written,
                                      !.step = IF written = 3 THEN "sync" ELSE @]
<1>1. /\ supervisor \in [Supervisors -> SupervisorRecords] /\ supervisor[w] \in SupervisorRecords
      /\ file \in Seq(Pieces) /\ Len(file) \in Nat /\ synced \in 0 .. Len(file)
  BY DEF TypeOK, SupervisorRecords
<1>2. /\ supervisor[w].step = "write" /\ lock = w /\ supervisor[w].stage # "open"
      /\ supervisor[w].written \in 0 .. 2 /\ EndsAfter(record, supervisor[w].written)
  BY DEF Write, LockIsExclusive, Locked, CursorOK
<1>3. record \in Records
  BY <1>1, <1>2 DEF Records, SupervisorRecords, Stages
<1>4. /\ supervisor' = [supervisor EXCEPT ![w] = t] /\ file' = Append(file, piece)
      /\ UNCHANGED <<synced, lock, faults, acknowledged>>
  BY <1>1 DEF Write
<1>5. /\ t \in SupervisorRecords /\ t.written = written /\ t.stage = supervisor[w].stage
      /\ t.step = IF written = 3 THEN "sync" ELSE "write"
  <2>1. written \in 0 .. 3
    BY <1>2
  <2>2. CASE written = 3
    <3>1. "sync" \in Steps
      BY DEF Steps
    <3> QED
      BY <1>1, <1>2, <2>1, <2>2, <3>1 DEF SupervisorRecords
  <2>3. CASE written # 3
    BY <1>1, <1>2, <2>1, <2>3 DEF SupervisorRecords
  <2> QED
    BY <2>2, <2>3
<1>6. /\ written = 1 => piece = Piece(record, "start")
      /\ written = 2 => piece = Piece(record, "end")
      /\ written = 3 => piece = Newline
      /\ written \in 1 .. 3
  BY <1>2 DEF Bytes
<1>7. piece \in Pieces
  BY <1>3, <1>6 DEF Pieces, Piece
<1> HIDE DEF t, piece
<1>8. supervisor'[w] = t
  BY <1>1, <1>4
<1>9. /\ Len(file') = Len(file) + 1 /\ file'[Len(file) + 1] = piece
      /\ \A j \in 1 .. Len(file) : file'[j] = file[j]
  BY <1>1, <1>4, <1>7
<1>10. PICK r \in Records, before \in 0 .. 2 : r = record /\ before = supervisor[w].written
  BY <1>2, <1>3
<1>11. CursorOK(w)'
  <2>1. EndsAfter(r, before + 1)'
    BY <1>1, <1>2, <1>4, <1>6, <1>7, <1>10, EndsGrow
  <2>2. <<w, supervisor'[w].stage>> = r /\ supervisor'[w].written = before + 1
    BY <1>5, <1>8, <1>10
  <2>3. before = 2 => supervisor'[w].step = "sync"
    BY <1>5, <1>8, <1>10
  <2>4. before # 2 => supervisor'[w].step = "write" /\ before + 1 \in 0 .. 2
    BY <1>5, <1>8, <1>10
  <2>5. supervisor'[w].stage # "open"
    BY <1>2, <1>5, <1>8
  <2> QED
    BY <1>10, <2>1, <2>2, <2>3, <2>4, <2>5 DEF CursorOK
<1>12. LinesAreWhole'
  <2>1. piece.part = "start" => EndsInNewline
    BY <1>2, <1>6 DEF Piece, Newline, EndsAfter
  <2>2. piece.part = "end" =>
          Len(file) >= 1 /\ file[Len(file)] = Piece(piece.record, "start")
    BY <1>2, <1>6 DEF Piece, Newline, EndsAfter
  <2> QED
    BY <1>1, <1>4, <1>7, <2>1, <2>2, WholeAfterAppend
<1>13. AcknowledgedIsSynced'
  BY <1>4, <1>7, GrowthKeepsAcknowledged
<1>14. file' \in Seq(Pieces) /\ synced' \in 0 .. Len(file')
  BY <1>1, <1>4, <1>7
<1> QED
  BY <1>2, <1>4, <1>5, <1>11, <1>12, <1>13, <1>14, HolderPreserves

LEMMA CallFailsPreserves ==
  ASSUME JournalInv, NEW w \in Supervisors, CallFails(w) PROVE JournalInv'
<1> USE DEF JournalInv
<1>1. /\ supervisor[w] \in SupervisorRecords /\ Len(file) \in Nat /\ synced \in 0 .. Len(file)
      /\ faults \in 0 .. MaxFaults
  BY DEF TypeOK, SupervisorRecords
<1>2. /\ supervisor' = [supervisor EXCEPT ![w] = Failed(supervisor[w])]
      /\ lock' = IF lock = w THEN None ELSE lock
      /\ UNCHANGED <<file, synced, acknowledged>>
  BY DEF CallFails
<1>3. faults' \in 0 .. MaxFaults
  BY <1>1, JournalAssumption DEF CallFails, Fault
<1>4. synced' \in synced .. Len(file) /\ acknowledged' \subseteq Records
  BY <1>1, <1>2 DEF TypeOK
<1>5. \A record \in acknowledged' : \E i \in 1 .. synced' - 2 : LineAt(record, i)
  BY <1>2 DEF AcknowledgedIsSynced
<1> QED
  BY <1>1, <1>2, <1>3, <1>4, <1>5, FailedIs, ReleasePreserves

LEMMA KillPreserves ==
  ASSUME JournalInv, NEW w \in Supervisors, Kill(w) PROVE JournalInv'
<1> USE DEF JournalInv
<1>1. Len(file) \in Nat /\ synced \in 0 .. Len(file) /\ faults \in 0 .. MaxFaults
  BY DEF TypeOK
<1>2. /\ supervisor' = [supervisor EXCEPT ![w] = Ended(None)]
      /\ lock' = IF lock = w THEN None ELSE lock
      /\ UNCHANGED <<file, synced, acknowledged>>
  BY DEF Kill
<1>3. faults' \in 0 .. MaxFaults
  BY <1>1, JournalAssumption DEF Kill, Fault
<1>4. synced' \in synced .. Len(file) /\ acknowledged' \subseteq Records
  BY <1>1, <1>2 DEF TypeOK
<1>5. \A record \in acknowledged' : \E i \in 1 .. synced' - 2 : LineAt(record, i)
  BY <1>2 DEF AcknowledgedIsSynced
<1> QED
  BY <1>2, <1>3, <1>4, <1>5, EndedIs, ReleasePreserves

\* A prefix that holds what has been synchronized.
LEMMA PowerLossPreserves ==
  ASSUME JournalInv, PowerLoss PROVE JournalInv'
<1> USE DEF JournalInv
<1>1. /\ supervisor \in [Supervisors -> SupervisorRecords] /\ file \in Seq(Pieces)
      /\ Len(file) \in Nat /\ synced \in 0 .. Len(file) /\ faults \in 0 .. MaxFaults
  BY DEF TypeOK, SupervisorRecords
<1>2. PICK length \in synced .. Len(file) : file' = SubSeq(file, 1, length) /\ synced' = length
  BY DEF PowerLoss
<1>3. length \in Nat /\ synced <= length /\ length <= Len(file)
  BY <1>1
<1>4. file' \in Seq(Pieces) /\ Len(file') = length /\ \A j \in 1 .. length : file'[j] = file[j]
  BY <1>1, <1>2, <1>3
<1>5. \A v \in Supervisors :
        \/ supervisor'[v] = Ended(None)
        \/ supervisor'[v] = supervisor[v] /\ supervisor[v].step = "dead"
        \/ supervisor'[v] = supervisor[v] /\ supervisor[v] = Unborn
  BY DEF PowerLoss, Live
<1>6. supervisor' \in [Supervisors -> SupervisorRecords]
  <2>1. supervisor' = [v \in Supervisors |-> IF Live(v) THEN Ended(None) ELSE supervisor[v]]
    BY DEF PowerLoss
  <2>2. Ended(None) \in SupervisorRecords
    BY EndedIs
  <2> QED
    BY <1>1, <2>1, <2>2
<1>7. faults' \in 0 .. MaxFaults
  BY <1>1, JournalAssumption DEF PowerLoss, Fault
<1>8. TypeOK'
  BY <1>2, <1>3, <1>4, <1>6, <1>7 DEF TypeOK, SupervisorRecords, PowerLoss
<1>9. \A v \in Supervisors :
        supervisor'[v].step = "dead" \/ (supervisor'[v].step = "lock" /\ supervisor'[v].written = 0)
  <2>1. Ended(None).step = "dead" /\ Unborn.step = "lock" /\ Unborn.written = 0
    BY EndedIs DEF Unborn
  <2> QED
    BY <1>5, <2>1
<1>10. LockIsExclusive'
  BY <1>9 DEF LockIsExclusive, Locked
<1>11. (\A v \in Supervisors : CursorOK(v))'
  <2>1. \A v \in Supervisors : supervisor'[v].step = "lock" => supervisor'[v].written = 0
    BY <1>9
  <2> QED
    BY <1>9, <2>1 DEF CursorOK
<1>12. LinesAreWhole'
  <2> SUFFICES ASSUME NEW i \in 1 .. Len(file')
               PROVE  /\ file'[i].part = "start" => i = 1 \/ file'[i - 1] = Newline
                      /\ file'[i].part = "end" =>
                           i > 1 /\ file'[i - 1] = Piece(file'[i].record, "start")
    BY DEF LinesAreWhole
  <2>1. i \in 1 .. Len(file) /\ file'[i] = file[i] /\ (i > 1 => file'[i - 1] = file[i - 1])
    BY <1>3, <1>4
  <2> QED
    BY <2>1 DEF LinesAreWhole
<1>13. AcknowledgedIsSynced'
  <2>1. acknowledged' = acknowledged
    BY DEF PowerLoss
  <2>2. \A i \in 1 .. synced - 2 : i \in 1 .. length - 2
    BY <1>1, <1>3
  <2>3. \A record : \A i \in 1 .. length - 2 : LineAt(record, i) => LineAt(record, i)'
    BY <1>3, <1>4 DEF LineAt
  <2> QED
    BY <1>2, <2>1, <2>2, <2>3 DEF AcknowledgedIsSynced
<1> QED
  BY <1>8, <1>10, <1>11, <1>12, <1>13

LEMMA JournalInvInit == Init => JournalInv
<1> SUFFICES ASSUME Init PROVE JournalInv
  OBVIOUS
<1>1. file \in Seq(Pieces) /\ Len(file) = 0 /\ synced \in 0 .. Len(file)
  BY DEF Init
<1>2. Unborn \in SupervisorRecords
  BY DEF Unborn, SupervisorRecords, Stages, Steps
<1>3. TypeOK
  BY <1>1, <1>2, JournalAssumption DEF TypeOK, Init, SupervisorRecords
<1>4. LockIsExclusive /\ \A w \in Supervisors : CursorOK(w)
  BY DEF Init, Unborn, LockIsExclusive, Locked, CursorOK
<1>5. LinesAreWhole /\ AcknowledgedIsSynced
  BY <1>1 DEF Init, LinesAreWhole, AcknowledgedIsSynced
<1> QED
  BY <1>3, <1>4, <1>5 DEF JournalInv

LEMMA JournalInvNext == JournalInv /\ [Next]_vars => JournalInv'
<1> SUFFICES ASSUME JournalInv, [Next]_vars PROVE JournalInv'
  OBVIOUS
<1>1. ASSUME NEW w \in Supervisors, Lock(w) PROVE JournalInv'
  BY <1>1, LockPreserves
<1>2. ASSUME NEW w \in Supervisors, Separate(w) PROVE JournalInv'
  BY <1>2, SeparatePreserves
<1>3. ASSUME NEW w \in Supervisors, SyncRepair(w) PROVE JournalInv'
  BY <1>3, SyncRepairPreserves
<1>4. ASSUME NEW w \in Supervisors, Write(w) PROVE JournalInv'
  BY <1>4, WritePreserves
<1>5. ASSUME NEW w \in Supervisors, Sync(w) PROVE JournalInv'
  BY <1>5, SyncPreserves
<1>6. ASSUME NEW w \in Supervisors, CallFails(w) PROVE JournalInv'
  BY <1>6, CallFailsPreserves
<1>7. ASSUME NEW w \in Supervisors, Kill(w) PROVE JournalInv'
  BY <1>7, KillPreserves
<1>8. CASE PowerLoss
  BY <1>8, PowerLossPreserves
<1>9. CASE UNCHANGED vars
  BY <1>9 DEF vars, JournalInv, TypeOK, LockIsExclusive, CursorOK, EndsAfter, EndsInNewline,
              LineAt, LinesAreWhole, AcknowledgedIsSynced
<1> QED
  BY <1>1, <1>2, <1>3, <1>4, <1>5, <1>6, <1>7, <1>8, <1>9 DEF Next

LEMMA JournalInvHolds == Spec => []JournalInv
<1> QED
  BY JournalInvInit, JournalInvNext, PTL DEF Spec

-----------------------------------------------------------------------------
\* No line of the journal holds pieces of two records (append of
\* journal/mod.rs): the lock is held from the repair to the newline.
THEOREM LinesWhole == Spec => []LinesAreWhole
<1>1. JournalInv => LinesAreWhole
  BY DEF JournalInv
<1> QED
  BY <1>1, JournalInvHolds, PTL

LEMMA SyncedIsIntact == JournalInv => AcknowledgedSurvives
<1> SUFFICES ASSUME JournalInv, NEW record \in acknowledged PROVE Intact(record)
  BY DEF AcknowledgedSurvives
<1>1. Len(file) \in Nat /\ synced \in 0 .. Len(file)
  BY DEF JournalInv, TypeOK
<1>2. \A i \in 1 .. synced - 2 : i \in 1 .. Len(file) - 2
  BY <1>1
<1> QED
  BY <1>2 DEF JournalInv, AcknowledgedIsSynced, Intact

\* A record whose append has returned Ok is a line of the journal for ever:
\* it is whole and synchronized before its append returns, and nothing shortens
\* what has been synchronized.
THEOREM AcknowledgedSurvive == Spec => []AcknowledgedSurvives
<1> QED
  BY SyncedIsIntact, JournalInvHolds, PTL

-----------------------------------------------------------------------------
\* What is recorded by the time a supervisor is where it is.
Justified(w, s, known) ==
  /\ s.stage \in {"processStarted", "processTerminated"} => <<w, "supervisorStarted">> \in known
  /\ s.stage = "processTerminated" /\ s.failure = None => <<w, "processStarted">> \in known
  /\ s.result = "ok" => \A event \in Lifecycle : <<w, event>> \in known
  /\ s.stage \in {"open", "supervisorStarted", "processStarted"} => s.failure = None
  /\ s.step # "dead" => s.result = None

Progress == \A w \in Supervisors : Justified(w, supervisor[w], acknowledged)

LEMMA MoreIsKnown ==
  ASSUME NEW w, NEW s, NEW known, NEW more, known \subseteq more, Justified(w, s, known)
  PROVE  Justified(w, s, more)
BY DEF Justified

LEMMA SucceededIsJustified ==
  ASSUME NEW w, NEW s \in SupervisorRecords, NEW t \in Succeeded(s), NEW known,
         s.step # "dead", Justified(w, s, known)
  PROVE  Justified(w, t, IF s.stage = "open" THEN known ELSE known \cup {<<w, s.stage>>})
<1>1. s.stage \in Stages
  BY DEF SupervisorRecords
<1>2. None # "ok"
  BY JournalAssumption DEF Results
<1> USE DEF Justified, Succeeded, Goes, Finished, Ended, Lifecycle
<1>3. CASE s.stage = "open"
  BY <1>2, <1>3
<1>4. CASE s.stage = "supervisorStarted"
  BY <1>2, <1>4
<1>5. CASE s.stage = "processStarted"
  BY <1>2, <1>5
<1>6. CASE s.stage = "processTerminated"
  BY <1>2, <1>6
<1>7. CASE s.stage = "spawnFailed"
  BY <1>2, <1>7
<1> QED
  BY <1>1, <1>3, <1>4, <1>5, <1>6, <1>7 DEF Stages, Events

LEMMA FailedIsJustified ==
  ASSUME NEW w, NEW s \in SupervisorRecords, NEW known, s.step # "dead", Justified(w, s, known)
  PROVE  Justified(w, Failed(s), known)
<1> DEFINE noted == [s EXCEPT !.failure = "append"]
<1>1. s.stage \in Stages
  BY DEF SupervisorRecords
<1>2. None # "ok" /\ None # "append"
  BY JournalAssumption DEF Results
<1>3. noted.failure = "append"
  BY DEF SupervisorRecords
<1> USE DEF Justified, Failed, Goes, Finished, Ended
<1> HIDE DEF noted
<1>4. CASE s.stage \in {"open", "supervisorStarted", "spawnFailed"}
  BY <1>2, <1>4
<1>5. CASE s.stage = "processStarted"
  <2>1. Failed(s) = Goes(noted, "processTerminated")
    BY <1>5 DEF noted
  <2> HIDE DEF Failed
  <2>2. Failed(s).failure = "append" /\ Failed(s).stage = "processTerminated"
        /\ Failed(s).result = None
    BY <1>3, <2>1
  <2>3. <<w, "supervisorStarted">> \in known
    BY <1>5
  <2> QED
    BY <1>2, <2>2, <2>3
<1>6. CASE s.stage = "processTerminated"
  <2>1. Failed(s) = Finished(noted)
    BY <1>6 DEF noted
  <2>2. Failed(s) = Ended("journalAfterSpawn")
    BY <1>2, <1>3, <2>1
  <2> HIDE DEF Failed
  <2> QED
    BY <2>2
<1> QED
  BY <1>1, <1>4, <1>5, <1>6 DEF Stages, Events

LEMMA ProgressSteps ==
  ASSUME TypeOK, Progress, NEW w \in Supervisors, NEW t, Justified(w, t, acknowledged'),
         supervisor' = [supervisor EXCEPT ![w] = t], acknowledged \subseteq acknowledged'
  PROVE  Progress'
<1>1. supervisor'[w] = t /\ \A v \in Supervisors : v # w => supervisor'[v] = supervisor[v]
  BY DEF TypeOK
<1>2. \A v \in Supervisors : Justified(v, supervisor[v], acknowledged')
  BY MoreIsKnown DEF Progress
<1> QED
  BY <1>1, <1>2 DEF Progress

\* A step that does no more than move on within the append.
LEMMA MovesOn ==
  ASSUME NEW w, NEW s \in SupervisorRecords, NEW t, NEW known, Justified(w, s, known),
         s.step # "dead", t.stage = s.stage, t.failure = s.failure, t.result = s.result
  PROVE  Justified(w, t, known)
BY DEF Justified

LEMMA ContinueProgresses ==
  ASSUME TypeOK, Progress, NEW w \in Supervisors, supervisor[w].step # "dead",
         Return(w) \/ Continue(w)
  PROVE  Progress'
<1>1. supervisor \in [Supervisors -> SupervisorRecords] /\ supervisor[w] \in SupervisorRecords
  BY DEF TypeOK, SupervisorRecords
<1>2. Justified(w, supervisor[w], acknowledged)
  BY DEF Progress
<1>3. CASE Return(w)
  <2>1. PICK t \in Succeeded(supervisor[w]) : supervisor' = [supervisor EXCEPT ![w] = t]
    BY <1>3 DEF Return
  <2>2. acknowledged' = IF supervisor[w].stage = "open" THEN acknowledged
                        ELSE acknowledged \cup {<<w, supervisor[w].stage>>}
    BY <1>3 DEF Return
  <2>3. Justified(w, t, acknowledged')
    BY <1>1, <1>2, <2>1, <2>2, SucceededIsJustified
  <2>4. acknowledged \subseteq acknowledged'
    BY <2>2
  <2> QED
    BY <2>1, <2>3, <2>4, ProgressSteps
<1>4. CASE Continue(w) /\ supervisor[w].stage # "open"
  <2> DEFINE t == [supervisor[w] EXCEPT !.step = "write"]
  <2>1. t.stage = supervisor[w].stage /\ t.failure = supervisor[w].failure
        /\ t.result = supervisor[w].result
    BY <1>1 DEF SupervisorRecords
  <2>2. supervisor' = [supervisor EXCEPT ![w] = t] /\ acknowledged' = acknowledged
    BY <1>1, <1>4 DEF Continue
  <2> HIDE DEF t
  <2>3. Justified(w, t, acknowledged')
    BY <1>1, <1>2, <2>1, <2>2, MovesOn
  <2> QED
    BY <2>2, <2>3, ProgressSteps
<1>5. CASE Continue(w) /\ supervisor[w].stage = "open"
  BY <1>3, <1>5 DEF Continue
<1> QED
  BY <1>3, <1>4, <1>5

LEMMA ProgressNext == TypeOK /\ Progress /\ [Next]_vars => Progress'
<1> SUFFICES ASSUME TypeOK, Progress, [Next]_vars PROVE Progress'
  OBVIOUS
<1>1. supervisor \in [Supervisors -> SupervisorRecords]
  BY DEF TypeOK, SupervisorRecords
<1>2. \A w \in Supervisors : supervisor[w] \in SupervisorRecords
                          /\ Justified(w, supervisor[w], acknowledged)
  BY <1>1 DEF Progress
<1>3. ASSUME NEW w \in Supervisors, Lock(w) PROVE Progress'
  <2> DEFINE t == [supervisor[w] EXCEPT !.step = "separate"]
  <2>1. t.stage = supervisor[w].stage /\ t.failure = supervisor[w].failure
        /\ t.result = supervisor[w].result
    BY <1>2 DEF SupervisorRecords
  <2>2. supervisor' = [supervisor EXCEPT ![w] = t] /\ acknowledged' = acknowledged
        /\ supervisor[w].step # "dead"
    BY <1>1, <1>3 DEF Lock, MayLock
  <2> HIDE DEF t
  <2>3. Justified(w, t, acknowledged')
    BY <1>2, <2>1, <2>2, MovesOn
  <2> QED
    BY <2>2, <2>3, ProgressSteps
<1>4. ASSUME NEW w \in Supervisors, Separate(w) PROVE Progress'
  <2>1. CASE EndsInNewline
    BY <1>4, <2>1, ContinueProgresses DEF Separate
  <2>2. CASE ~EndsInNewline
    <3> DEFINE t == [supervisor[w] EXCEPT !.step = "syncRepair"]
    <3>1. t.stage = supervisor[w].stage /\ t.failure = supervisor[w].failure
          /\ t.result = supervisor[w].result
      BY <1>2 DEF SupervisorRecords
    <3>2. supervisor' = [supervisor EXCEPT ![w] = t] /\ acknowledged' = acknowledged
          /\ supervisor[w].step # "dead"
      BY <1>1, <1>4, <2>2 DEF Separate
    <3> HIDE DEF t
    <3>3. Justified(w, t, acknowledged')
      BY <1>2, <3>1, <3>2, MovesOn
    <3> QED
      BY <3>2, <3>3, ProgressSteps
  <2> QED
    BY <2>1, <2>2
<1>5. ASSUME NEW w \in Supervisors, SyncRepair(w) PROVE Progress'
  BY <1>5, ContinueProgresses DEF SyncRepair
<1>6. ASSUME NEW w \in Supervisors, Write(w) PROVE Progress'
  <2> DEFINE written == supervisor[w].written + 1
             t == [supervisor[w] EXCEPT !.written = written,
                                        !.step = IF written = 3 THEN "sync" ELSE @]
  <2>1. t.stage = supervisor[w].stage /\ t.failure = supervisor[w].failure
        /\ t.result = supervisor[w].result
    BY <1>2 DEF SupervisorRecords
  <2>2. supervisor' = [supervisor EXCEPT ![w] = t] /\ acknowledged' = acknowledged
        /\ supervisor[w].step # "dead"
    BY <1>1, <1>6 DEF Write
  <2> HIDE DEF t
  <2>3. Justified(w, t, acknowledged')
    BY <1>2, <2>1, <2>2, MovesOn
  <2> QED
    BY <2>2, <2>3, ProgressSteps
<1>7. ASSUME NEW w \in Supervisors, Sync(w) PROVE Progress'
  BY <1>7, ContinueProgresses DEF Sync
<1>8. ASSUME NEW w \in Supervisors, CallFails(w) PROVE Progress'
  <2>1. /\ supervisor' = [supervisor EXCEPT ![w] = Failed(supervisor[w])]
        /\ acknowledged' = acknowledged /\ supervisor[w].step # "dead"
    BY <1>8 DEF CallFails, Steps
  <2>2. Justified(w, Failed(supervisor[w]), acknowledged')
    BY <1>2, <2>1, FailedIsJustified
  <2> QED
    BY <2>1, <2>2, ProgressSteps
<1>9. \A w : Justified(w, Ended(None), acknowledged)
  <2>1. None # "ok"
    BY JournalAssumption DEF Results
  <2> QED
    BY <2>1 DEF Justified, Ended
<1>10. ASSUME NEW w \in Supervisors, Kill(w) PROVE Progress'
  BY <1>9, <1>10, ProgressSteps DEF Kill
<1>11. CASE PowerLoss
  BY <1>9, <1>11 DEF PowerLoss, Progress
<1>12. CASE UNCHANGED vars
  BY <1>12 DEF vars, Progress
<1> QED
  BY <1>3, <1>4, <1>5, <1>6, <1>7, <1>8, <1>10, <1>11, <1>12 DEF Next

LEMMA ProgressInit == Init => Progress
<1>1. None # "ok"
  BY JournalAssumption DEF Results
<1>2. Unborn.stage = "open" /\ Unborn.failure = None /\ Unborn.result = None
  BY DEF Unborn
<1>3. \A w : Justified(w, Unborn, {})
  BY <1>1, <1>2 DEF Justified
<1> QED
  BY <1>3 DEF Init, Progress

\* A supervisor that returns the status of its process has all of its events in
\* the journal (supervise of runtime/mod.rs): the failure tracker remembers the
\* append that failed though later ones succeed.
THEOREM SuccessRecorded == Spec => []SuccessIsRecorded
<1>1. JournalInv => TypeOK
  BY DEF JournalInv
<1>2. Progress /\ AcknowledgedSurvives => SuccessIsRecorded
  BY DEF Progress, Justified, AcknowledgedSurvives, SuccessIsRecorded
<1> QED
  BY <1>1, <1>2, ProgressInit, ProgressNext, JournalInvHolds, AcknowledgedSurvive, PTL DEF Spec
===============================================================================
