------------------------ MODULE ProbeRecorder_proofs -------------------------
(***************************************************************************)
(* Proofs about probe recordings, for every size of the stream and of a     *)
(* recording and any number of periods and failures: a recording that says  *)
(* nothing is missing has every period of its interval, a file under the    *)
(* final name is whole, and what was shown as saved survives a power loss.  *)
(*                                                                         *)
(* The first rests on what a frame tells of the frames before it: those     *)
(* between two frames of the stream were off, or the second says that       *)
(* something is missing (StreamInv), so the worker, who counts the periods  *)
(* since an armed frame and believes that mark after any other, cannot miss *)
(* an armed one (WorkerInv).                                                *)
(***************************************************************************)
EXTENDS ProbeRecorder, SequenceTheorems, TLAPS

Frame == [cycle: Nat, armed: BOOLEAN, gap: BOOLEAN]
Servo == [cycle: 0 .. MaxCycle, mode: BOOLEAN, pendingOff: BOOLEAN, gap: BOOLEAN]
Contents == {"none", "part", "whole"}
Files == [partial: BOOLEAN, named: BOOLEAN, content: Contents, durable: BOOLEAN]

RecorderTypes ==
  /\ mode \in BOOLEAN /\ record \in BOOLEAN /\ retry \in Nat
  /\ servo \in Servo /\ stream \in Seq(Frame)
  /\ worker \in Worker \cup {None}
  /\ recordings \in Seq(Recording) /\ Len(recordings) <= MaxCycle \div 2
  /\ pending \in Seq(Ids)
  /\ writer \in Writer \cup {None}
  /\ disk \in [Ids -> Files] /\ saved \subseteq Ids

(* The period of the frame the worker read last.                            *)
LastRead == IF worker.previous = None THEN 0 ELSE worker.previous.cycle

(* The period of the frame before the i-th of the stream.                   *)
Before(i) == IF i = 1 THEN LastRead ELSE stream[i - 1].cycle

OffBetween(first, last) == \A c \in armed : ~(first < c /\ c < last)

(* What is in the stream, and what the next frame would have to say.        *)
StreamInv ==
  /\ armed \subseteq 1 .. servo.cycle
  /\ \A i \in 1 .. Len(stream) :
       /\ Before(i) < stream[i].cycle /\ stream[i].cycle <= servo.cycle
       /\ stream[i].armed <=> stream[i].cycle \in armed
       /\ ~stream[i].gap => OffBetween(Before(i), stream[i].cycle)
  /\ Before(Len(stream) + 1) <= servo.cycle
  /\ ~servo.gap => OffBetween(Before(Len(stream) + 1), servo.cycle + 1)

(* Every period of an interval in which recording was on, and only those.   *)
Covers(frames, first, last) ==
  /\ first \in armed /\ last \in armed /\ first <= last
  /\ frames = first .. last /\ first .. last \subseteq armed
  /\ first - 1 \notin armed

WorkerInv ==
  /\ worker.previous # None =>
       (worker.previous.armed <=> worker.previous.cycle \in armed)
  /\ worker.active # None <=> (worker.previous # None /\ worker.previous.armed)
  /\ worker.active # None /\ worker.active.missing = 0 =>
         \E first \in armed : Covers(worker.active.frames, first, worker.previous.cycle)
  /\ 2 * Len(recordings) + (IF worker.active = None THEN 0 ELSE 1) <= LastRead

(* A recording that has ended is followed by a period that was off.         *)
Closed(recording) ==
  recording.missing = 0 =>
    \E first, last \in armed :
      /\ Covers(recording.frames, first, last) /\ last + 1 \notin armed
      /\ On => last < servo.cycle

ClosedInv == \A id \in DOMAIN recordings : Closed(recordings[id])

(* How far each call of save() has brought the file.                        *)
WriterOK ==
  writer # None =>
    /\ writer.step \in {"create", "write"} => ~disk[writer.id].named
    /\ writer.step = "link" => disk[writer.id].content = "whole"
    /\ writer.step \in {"unlink", "sync", "saved"} => disk[writer.id].named
    /\ writer.step = "saved" => disk[writer.id].durable

DiskInv ==
  /\ NamedIsWhole /\ WriterOK
  /\ \A id \in saved : disk[id].named /\ disk[id].durable

RecordingInv == (On => StreamInv /\ WorkerInv) /\ ClosedInv
RecorderInv == RecorderTypes /\ RecordingInv /\ DiskInv
-----------------------------------------------------------------------------
LEMMA RecorderFacts ==
  /\ MaxCycle \in Nat /\ 0 \in 0 .. MaxCycle /\ Ids \subseteq Nat
  /\ None \notin Read /\ None \notin Recording /\ None \notin Worker /\ None \notin Writer
  /\ NewWorker \in Worker /\ NewServo \in Servo
BY RecorderAssumption, NoneAssumption
DEF Ids, NewWorker, Worker, NewServo, Servo

LEMMA InitialRecorder == Init => RecorderInv
<1> SUFFICES ASSUME Init PROVE RecorderInv
  OBVIOUS
<1>1. RecorderTypes
  <2>1. NoFile \in Files /\ Len(<<>>) = 0 /\ 0 <= MaxCycle \div 2
    BY RecorderFacts DEF NoFile, Files, Contents
  <2>2. /\ retry = 0 /\ servo \in Servo /\ stream \in Seq(Frame) /\ worker \in Worker
        /\ recordings = <<>> /\ recordings \in Seq(Recording) /\ pending \in Seq(Ids)
        /\ writer = None /\ disk \in [Ids -> Files] /\ saved = {}
    BY <2>1, RecorderFacts DEF Init
  <2>3. mode \in BOOLEAN /\ record \in BOOLEAN
    BY DEF Init
  <2> QED BY <2>1, <2>2, <2>3 DEF RecorderTypes
<1>2. StreamInv
  BY RecorderFacts DEF Init, StreamInv, Before, LastRead, OffBetween, NewServo, NewWorker
<1>3. WorkerInv
  BY DEF Init, WorkerInv, LastRead, NewWorker
<1>4. ClosedInv
  BY DEF Init, ClosedInv
<1>5. DiskInv
  BY DEF Init, DiskInv, NamedIsWhole, WriterOK, NoFile
<1> QED BY <1>1, <1>2, <1>3, <1>4, <1>5 DEF RecorderInv, RecordingInv
-----------------------------------------------------------------------------
(* The intervals                                                            *)

(* Steps that leave the frames alone.                                       *)
LEMMA RecordingKept ==
  ASSUME RecordingInv, UNCHANGED <<servo, stream, recordings, armed>>,
         worker' # None => /\ worker # None /\ worker'.previous = worker.previous
                           /\ worker'.active = worker.active,
         worker # None => worker' # None
  PROVE  RecordingInv'
<1>1. (On <=> On') /\ (On => LastRead' = LastRead)
  BY DEF On, LastRead
<1>2. On => StreamInv' /\ WorkerInv'
  <2> SUFFICES ASSUME On PROVE StreamInv' /\ WorkerInv'
    OBVIOUS
  <2>1. \A i : Before(i)' = Before(i)
    BY <1>1 DEF Before
  <2>2. StreamInv'
    BY <2>1 DEF StreamInv, OffBetween, RecordingInv
  <2>3. WorkerInv'
    BY <1>1 DEF WorkerInv, Covers, RecordingInv, On
  <2> QED BY <2>2, <2>3
<1>3. ClosedInv'
  BY <1>1 DEF ClosedInv, Closed, Covers, RecordingInv
<1> QED BY <1>1, <1>2, <1>3 DEF RecordingInv

(* A period in which recording is on comes after every interval there is,   *)
(* and so leaves them as they are.                                          *)
LEMMA CoversGrows ==
  ASSUME NEW frames, NEW first \in Nat, NEW last \in Nat, NEW now \in Nat,
         last < now, Covers(frames, first, last),
         armed' = armed \/ armed' = armed \cup {now}
  PROVE  Covers(frames, first, last)'
BY DEF Covers

(* The worker has read no further than the servo has come.                  *)
LEMMA LastReadType ==
  ASSUME RecorderTypes, On, StreamInv
  PROVE  /\ LastRead \in Nat /\ LastRead <= servo.cycle /\ servo.cycle \in Nat
         /\ servo.cycle <= MaxCycle /\ armed \subseteq Nat /\ Len(stream) \in Nat
         /\ worker \in Worker
         /\ \A i \in 1 .. Len(stream) : stream[i] \in Frame /\ stream[i].cycle \in Nat
         /\ \A i \in 1 .. Len(stream) + 1 : Before(i) \in Nat /\ Before(i) <= servo.cycle
<1>1. /\ servo.cycle \in Nat /\ servo.cycle <= MaxCycle /\ armed \subseteq Nat
      /\ Len(stream) \in Nat /\ worker \in Worker
      /\ \A i \in 1 .. Len(stream) : stream[i] \in Frame /\ stream[i].cycle \in Nat
  <2>1. servo.cycle \in 0 .. MaxCycle /\ MaxCycle \in Nat
    BY RecorderFacts DEF RecorderTypes, Servo
  <2>2. \A i \in 1 .. Len(stream) : stream[i] \in Frame
    BY DEF RecorderTypes
  <2> QED BY <2>1, <2>2 DEF StreamInv, RecorderTypes, On, Frame
<1>2. LastRead \in Nat
  BY <1>1 DEF LastRead, Worker, Read
<1>3. LastRead <= servo.cycle
  <2>1. CASE Len(stream) = 0
    BY <2>1 DEF StreamInv, Before
  <2>2. CASE Len(stream) > 0
    <3>1. 1 \in 1 .. Len(stream)
      BY <1>1, <2>2
    <3>2. LastRead < stream[1].cycle /\ stream[1].cycle <= servo.cycle
      BY <3>1 DEF StreamInv, Before
    <3> QED BY <1>1, <1>2, <3>1, <3>2
  <2> QED BY <1>1, <2>1, <2>2
<1>4. \A i \in 1 .. Len(stream) + 1 : Before(i) \in Nat /\ Before(i) <= servo.cycle
  <2> SUFFICES ASSUME NEW i \in 1 .. Len(stream) + 1
               PROVE  Before(i) \in Nat /\ Before(i) <= servo.cycle
    OBVIOUS
  <2>1. CASE i = 1
    BY <1>2, <1>3, <2>1 DEF Before
  <2>2. CASE i # 1
    <3>1. i - 1 \in 1 .. Len(stream)
      BY <1>1, <2>2
    <3> QED BY <1>1, <2>2, <3>1 DEF StreamInv, Before
  <2> QED BY <2>1, <2>2
<1> QED BY <1>1, <1>2, <1>3, <1>4

LEMMA CaptureRecords == RecorderInv /\ Capture => RecordingInv'
<1> SUFFICES ASSUME RecorderInv, Capture PROVE RecordingInv'
  OBVIOUS
<1>1. /\ RecorderTypes /\ On /\ StreamInv /\ WorkerInv /\ ClosedInv
  BY DEF RecorderInv, RecordingInv, Capture
<1>2. PICK n \in Nat, past \in Nat, now \in Nat, on \in BOOLEAN, f \in Frame :
        /\ n = Len(stream) /\ past = servo.cycle /\ now = past + 1 /\ on = (mode /\ record)
        /\ f = [cycle |-> now, armed |-> on, gap |-> servo.gap]
  <2>1. Len(stream) \in Nat /\ servo.cycle \in Nat /\ servo.cycle + 1 \in Nat
    BY <1>1, LastReadType
  <2>2. servo.gap \in BOOLEAN /\ (mode /\ record) \in BOOLEAN
    BY <1>1 DEF RecorderTypes, Servo
  <2>3. [cycle |-> servo.cycle + 1, armed |-> (mode /\ record), gap |-> servo.gap] \in Frame
    BY <2>1, <2>2 DEF Frame
  <2> QED BY <2>1, <2>2, <2>3
<1>3. /\ servo'.cycle = now /\ UNCHANGED <<worker, recordings>>
      /\ armed' = IF on THEN armed \cup {now} ELSE armed
      /\ \/ stream' = Append(stream, f)
         \/ stream' = stream /\ (servo'.gap \/ (~on /\ servo'.gap = servo.gap))
  BY <1>2 DEF Capture, memory, GapFlag, Skipped
<1>4. /\ LastRead \in Nat /\ LastRead <= past
      /\ armed \subseteq Nat /\ worker \in Worker
      /\ \A i \in 1 .. n : stream[i] \in Frame /\ stream[i].cycle \in Nat
      /\ \A i \in 1 .. n + 1 : Before(i) \in Nat /\ Before(i) <= past
  BY <1>1, <1>2, LastReadType
<1>5. /\ armed \subseteq 1 .. past /\ now \notin armed
      /\ armed' = armed \/ armed' = armed \cup {now}
      /\ now \in armed' <=> on
      /\ \A c : c # now => (c \in armed' <=> c \in armed)
      /\ \A c \in armed : c < now
      /\ \A c \in armed' : c \in 1 .. now
  <2>1. armed \subseteq 1 .. past
    BY <1>1, <1>2 DEF StreamInv
  <2>2. \A c \in armed : c \in Nat /\ c < now /\ c \in 1 .. now
    BY <1>2, <2>1
  <2>3. now \notin armed /\ now \in 1 .. now
    BY <1>2, <2>2
  <2> QED BY <1>3, <2>1, <2>2, <2>3
<1>6. On' /\ LastRead' = LastRead /\ Before(1)' = LastRead
  BY <1>1, <1>3 DEF On, LastRead, Before
<1>7. /\ \A i \in 1 .. n : stream'[i] = stream[i]
      /\ \A i \in 1 .. n + 1 : Before(i)' = Before(i)
      /\ \/ /\ Len(stream') = n + 1 /\ stream'[n + 1] = f
            /\ Before(n + 2)' = now
         \/ Len(stream') = n /\ (servo'.gap \/ (~on /\ servo'.gap = servo.gap))
  <2>1. stream \in Seq(Frame)
    BY <1>1 DEF RecorderTypes
  <2>2. \A i \in 1 .. n : stream'[i] = stream[i]
    BY <1>2, <1>3, <2>1
  <2>3. \A i \in 1 .. n + 1 : i # 1 => i - 1 \in 1 .. n
    OBVIOUS
  <2>4. \A i \in 1 .. n + 1 : Before(i)' = Before(i)
    BY <1>6, <2>2, <2>3 DEF Before
  <2>5. CASE stream' = Append(stream, f)
    <3>1. Len(stream') = n + 1 /\ stream'[n + 1] = f
      BY <1>2, <2>1, <2>5
    <3>2. n + 2 # 1 /\ (n + 2) - 1 = n + 1 /\ f.cycle = now
      BY <1>2
    <3> QED BY <2>2, <2>4, <3>1, <3>2 DEF Before
  <2>6. CASE stream' = stream
    BY <1>2, <1>3, <2>2, <2>4, <2>6
  <2> QED BY <1>3, <2>5, <2>6
<1>8. \A first \in Nat, last \in Nat :
        last <= now /\ OffBetween(first, last) => OffBetween(first, last)'
  BY <1>2, <1>4, <1>5 DEF OffBetween
<1>9. StreamInv'
  <2>1. armed' \subseteq 1 .. servo'.cycle
    BY <1>2, <1>3, <1>5
  <2>2. ASSUME NEW i \in 1 .. n
        PROVE  /\ Before(i)' < stream'[i].cycle /\ stream'[i].cycle <= servo'.cycle
               /\ stream'[i].armed <=> stream'[i].cycle \in armed'
               /\ ~stream'[i].gap => OffBetween(Before(i), stream[i].cycle)'
    <3>1. /\ i \in 1 .. n + 1 /\ Before(i) \in Nat
          /\ stream'[i] = stream[i] /\ Before(i)' = Before(i)
      BY <1>4, <1>7
    <3>2. PICK c \in Nat : /\ c = stream[i].cycle /\ Before(i) < c /\ c <= past
                           /\ stream[i].armed <=> c \in armed
                           /\ ~stream[i].gap => OffBetween(Before(i), c)
      BY <1>1, <1>2, <1>4 DEF StreamInv
    <3>3. c <= now /\ c # now
      BY <1>2, <3>2
    <3>4. ~stream[i].gap => OffBetween(Before(i), c)'
      <4>1. PICK b \in Nat : b = Before(i)
        BY <3>1
      <4>2. ~stream[i].gap => OffBetween(b, c)'
        BY <1>8, <3>2, <3>3, <4>1
      <4> QED BY <3>1, <4>1, <4>2 DEF OffBetween
    <3>5. ~stream'[i].gap => OffBetween(Before(i), stream[i].cycle)'
      BY <3>1, <3>2, <3>4 DEF OffBetween
    <3> QED BY <1>3, <1>5, <3>1, <3>2, <3>3, <3>5
  <2>3. PICK b \in Nat : b = Before(n + 1) /\ Before(n + 1)' = b /\ b <= past
    BY <1>4, <1>7
  <2>4. ~servo.gap => OffBetween(b, now)
    BY <1>1, <1>2, <2>3 DEF StreamInv
  <2>5. ~servo.gap => OffBetween(b, now)'
    BY <1>8, <2>4
  <2>6. CASE Len(stream') = n + 1 /\ stream'[n + 1] = f /\ Before(n + 2)' = now
    <3>1. /\ f.cycle = now /\ f.armed = on /\ f.gap = servo.gap
      BY <1>2
    <3>2. /\ Before(n + 1)' < stream'[n + 1].cycle /\ stream'[n + 1].cycle <= servo'.cycle
          /\ stream'[n + 1].armed <=> stream'[n + 1].cycle \in armed'
      BY <1>2, <1>3, <1>5, <2>3, <2>6, <3>1
    <3>3. ~stream'[n + 1].gap => OffBetween(Before(n + 1), stream[n + 1].cycle)'
      BY <2>3, <2>5, <2>6, <3>1 DEF OffBetween
    <3>4. OffBetween(Before(Len(stream) + 1), servo.cycle + 1)'
      <4>1. \A c \in armed' : ~(now < c /\ c < now + 1)
        BY <1>2, <1>5
      <4>2. Len(stream)' + 1 = n + 2 /\ servo'.cycle + 1 = now + 1
        BY <1>3, <2>6
      <4> QED BY <2>6, <4>1, <4>2 DEF OffBetween
    <3>5. Before(Len(stream) + 1)' <= servo'.cycle
      <4>1. Len(stream)' + 1 = n + 2
        BY <2>6
      <4> QED BY <1>2, <1>3, <2>6, <4>1
    <3>6. \A i \in 1 .. n + 1 : i \in 1 .. n \/ i = n + 1
      OBVIOUS
    <3> QED BY <2>1, <2>2, <2>6, <3>2, <3>3, <3>4, <3>5, <3>6 DEF StreamInv
  <2>7. CASE Len(stream') = n /\ (servo'.gap \/ (~on /\ servo'.gap = servo.gap))
    <3>1. ~servo'.gap => OffBetween(b, now + 1)'
      <4> SUFFICES ASSUME ~servo'.gap, NEW c \in armed' PROVE ~(b < c /\ c < now + 1)
        BY DEF OffBetween
      <4>1. c \in armed /\ c < now /\ ~servo.gap
        BY <1>5, <2>7
      <4> QED BY <2>4, <4>1 DEF OffBetween
    <3>2. ~servo'.gap => OffBetween(Before(Len(stream) + 1), servo.cycle + 1)'
      <4>1. Before(Len(stream) + 1)' = b /\ servo'.cycle + 1 = now + 1
        BY <1>3, <2>3, <2>7
      <4> QED BY <3>1, <4>1 DEF OffBetween
    <3>3. Before(Len(stream) + 1)' <= servo'.cycle
      BY <1>2, <1>3, <2>3, <2>7
    <3> QED BY <2>1, <2>2, <2>7, <3>2, <3>3 DEF StreamInv
  <2> QED BY <1>7, <2>6, <2>7
<1>10. WorkerInv'
  <2>1. worker.previous # None => /\ worker.previous.cycle = LastRead
                                 /\ worker.previous.cycle \in Nat
                                 /\ worker.previous.cycle <= past
    BY <1>4 DEF LastRead
  <2>2. worker.previous # None =>
          (worker.previous.armed <=> worker.previous.cycle \in armed')
    BY <1>1, <1>2, <1>5, <2>1 DEF WorkerInv
  <2>3. ASSUME worker.active # None, worker.active.missing = 0
        PROVE  \E first \in armed' :
                 Covers(worker.active.frames, first, worker.previous.cycle)'
    <3>1. PICK first \in armed : Covers(worker.active.frames, first, worker.previous.cycle)
      BY <1>1, <2>3 DEF WorkerInv
    <3>2. PICK frames, last : /\ frames = worker.active.frames
                              /\ last = worker.previous.cycle
      OBVIOUS
    <3>3. first \in Nat /\ last \in Nat /\ last < now /\ Covers(frames, first, last)
      BY <1>1, <1>2, <1>4, <2>1, <2>3, <3>1, <3>2 DEF WorkerInv
    <3>4. Covers(frames, first, last)'
      BY <1>5, <3>3, CoversGrows
    <3>5. Covers(worker.active.frames, first, worker.previous.cycle)'
      BY <1>3, <3>2, <3>4 DEF Covers
    <3> QED BY <1>5, <3>5
  <2> QED BY <1>1, <1>3, <1>6, <2>2, <2>3 DEF WorkerInv
<1>11. ClosedInv'
  <2> SUFFICES ASSUME NEW id \in DOMAIN recordings, recordings[id].missing = 0
               PROVE  \E first, last \in armed' :
                        /\ Covers(recordings[id].frames, first, last)'
                        /\ last + 1 \notin armed' /\ last < now
    BY <1>3 DEF ClosedInv, Closed, Covers
  <2>1. PICK frames : frames = recordings[id].frames
    OBVIOUS
  <2>2. PICK first \in armed, last \in armed :
          /\ Covers(frames, first, last) /\ last + 1 \notin armed /\ last < past
    BY <1>1, <1>2, <2>1 DEF ClosedInv, Closed
  <2>3. first \in Nat /\ last \in Nat /\ last < now /\ last + 1 # now
    BY <1>2, <1>4, <2>2
  <2>4. Covers(frames, first, last)'
    BY <1>5, <2>2, <2>3, CoversGrows
  <2>5. Covers(recordings[id].frames, first, last)'
    BY <1>3, <2>1, <2>4 DEF Covers
  <2> QED BY <1>5, <2>2, <2>3, <2>5
<1> QED BY <1>6, <1>9, <1>10, <1>11 DEF RecordingInv

LEMMA PushedIs ==
  ASSUME NEW r \in Recording, NEW frame \in Frame
  PROVE  /\ Pushed(r, frame) \in Recording
         /\ Pushed(r, frame).missing = 0 =>
              r.missing = 0 /\ Pushed(r, frame).frames = r.frames \cup {frame.cycle}
<1>1. /\ r.missing \in Nat /\ r.missing + 1 # 0 /\ r.missing + 1 \in Nat
      /\ r.frames \cup {frame.cycle} \subseteq Nat
  BY DEF Recording, Frame
<1>2. CASE Cardinality(r.frames) < MaxFrames
  <2>1. Pushed(r, frame) = [r EXCEPT !.frames = r.frames \cup {frame.cycle}]
    BY <1>2 DEF Pushed
  <2> QED BY <1>1, <2>1 DEF Recording
<1>3. CASE ~(Cardinality(r.frames) < MaxFrames)
  <2>1. Pushed(r, frame) = [r EXCEPT !.missing = r.missing + 1]
    BY <1>3 DEF Pushed
  <2> QED BY <1>1, <2>1 DEF Recording
<1> QED BY <1>2, <1>3

LEMMA CountedIs ==
  ASSUME NEW r \in Recording, NEW lost \in Nat
  PROVE  LET counted == [r EXCEPT !.missing = @ + lost]
         IN  /\ counted \in Recording /\ counted.frames = r.frames
             /\ counted.missing = 0 => r.missing = 0 /\ lost = 0
BY DEF Recording

(* What the worker makes of the next frame.                                 *)
LEMMA ObservedFrame ==
  ASSUME RecorderTypes, On, StreamInv, WorkerInv, stream # <<>>,
         NEW h, h = Head(stream)
  PROVE  /\ h \in Frame /\ h.cycle \in Nat
         /\ LastRead < h.cycle /\ h.cycle <= servo.cycle /\ (h.armed <=> h.cycle \in armed)
         /\ h.armed =>
              /\ Observed(h) \in Recording
              /\ Observed(h).missing = 0 =>
                   \E first \in armed : Covers(Observed(h).frames, first, h.cycle)
         /\ ~h.armed =>
              \/ worker.active = None /\ Observed(h) = None
              \/ /\ worker.active # None /\ Observed(h) \in Recording
                 /\ Observed(h).missing = 0 =>
                      \E first \in armed : Covers(Observed(h).frames, first, h.cycle - 1)
<1>1. /\ LastRead \in Nat /\ servo.cycle \in Nat /\ armed \subseteq Nat
      /\ worker \in Worker /\ Len(stream) \in Nat
      /\ stream \in Seq(Frame)
  BY LastReadType DEF RecorderTypes
<1>2. 1 \in 1 .. Len(stream) /\ h = stream[1] /\ h \in Frame
  BY <1>1
<1>3. /\ h.cycle \in Nat /\ h.armed \in BOOLEAN /\ h.gap \in BOOLEAN
      /\ LastRead < h.cycle /\ h.cycle <= servo.cycle /\ (h.armed <=> h.cycle \in armed)
      /\ ~h.gap => OffBetween(LastRead, h.cycle)
  BY <1>2 DEF StreamInv, Before, Frame
<1> DEFINE lost == LostBefore(h)
           new == [frames |-> {}, missing |-> 0]
<1>4. lost \in Nat
  <2>1. worker.previous # None => worker.previous.cycle = LastRead
    BY DEF LastRead
  <2> QED BY <1>1, <1>3, <2>1 DEF LostBefore
<1>5. CASE worker.active = None
  <2>1. CASE ~h.armed
    BY <1>2, <1>3, <1>5, <2>1 DEF Observed
  <2>2. CASE h.armed
    <3> DEFINE counted == [new EXCEPT !.missing = @ + lost]
    <3>1. new \in Recording /\ new # None /\ new.frames = {}
      BY RecorderFacts DEF Recording
    <3> HIDE DEF new
    <3>2. Observed(h) = Pushed(counted, h)
      BY <1>5, <2>2, <3>1 DEF Observed, new
    <3> HIDE DEF lost
    <3>3. /\ counted \in Recording /\ counted.frames = {}
          /\ counted.missing = 0 => lost = 0
      BY <1>4, <3>1, CountedIs
    <3> HIDE DEF counted
    <3>4. /\ Observed(h) \in Recording
          /\ Observed(h).missing = 0 => lost = 0 /\ Observed(h).frames = {h.cycle}
      BY <1>2, <3>2, <3>3, PushedIs
    <3>5. ASSUME lost = 0 PROVE Covers({h.cycle}, h.cycle, h.cycle)
      <4>1. ~(worker.previous # None /\ worker.previous.armed)
        BY <1>5 DEF WorkerInv
      <4>2. OffBetween(LastRead, h.cycle)
        BY <1>3, <3>5, <4>1 DEF lost, LostBefore
      <4>3. LastRead \notin armed
        <5>1. CASE worker.previous = None
          BY <1>1, <5>1 DEF StreamInv, LastRead
        <5>2. CASE worker.previous # None
          BY <4>1, <5>2 DEF WorkerInv, LastRead
        <5> QED BY <5>1, <5>2
      <4>4. h.cycle - 1 \notin armed
        BY <1>1, <1>3, <4>2, <4>3 DEF OffBetween
      <4>5. {h.cycle} = h.cycle .. h.cycle
        BY <1>3
      <4> QED BY <1>3, <2>2, <4>4, <4>5 DEF Covers
    <3> QED BY <1>2, <1>3, <2>2, <3>4, <3>5
  <2> QED BY <1>3, <2>1, <2>2
<1>6. CASE worker.active # None
  <2> DEFINE a == worker.active
             counted == [a EXCEPT !.missing = @ + lost]
             last == worker.previous.cycle
  <2>1. /\ a \in Recording /\ last = LastRead
        /\ worker.previous # None /\ worker.previous.armed
    BY <1>1, <1>6 DEF WorkerInv, LastRead, Worker
  <2>2. lost = h.cycle - last - 1
    BY <2>1 DEF LostBefore
  <2>3. Observed(h) = IF h.armed THEN Pushed(counted, h) ELSE counted
    BY <1>6 DEF Observed
  <2>4. a.missing = 0 => \E first \in armed : Covers(a.frames, first, last)
    BY <1>6 DEF WorkerInv
  <2> HIDE DEF a, lost, last
  <2>5. /\ counted \in Recording /\ counted.frames = a.frames
        /\ counted.missing = 0 => a.missing = 0 /\ h.cycle - 1 = last
    <3>1. /\ counted \in Recording /\ counted.frames = a.frames
          /\ counted.missing = 0 => a.missing = 0 /\ lost = 0
      BY <1>4, <2>1, CountedIs
    <3>2. lost = 0 => h.cycle - 1 = last
      BY <1>1, <1>3, <2>1, <2>2
    <3> QED BY <3>1, <3>2
  <2> HIDE DEF counted
  <2>6. CASE ~h.armed
    BY <1>2, <1>3, <1>6, <2>3, <2>4, <2>5, <2>6
  <2>7. CASE h.armed
    <3>1. /\ Observed(h) \in Recording
          /\ Observed(h).missing = 0 =>
               a.missing = 0 /\ h.cycle - 1 = last /\ Observed(h).frames = a.frames \cup {h.cycle}
      BY <1>2, <2>3, <2>5, <2>7, PushedIs
    <3>2. ASSUME NEW first \in armed, Covers(a.frames, first, last), h.cycle - 1 = last
          PROVE  Covers(a.frames \cup {h.cycle}, first, h.cycle)
      <4>1. first \in Nat /\ last \in Nat /\ first <= last /\ h.cycle = last + 1
        BY <1>1, <1>3, <2>1, <3>2 DEF Covers
      <4>2. (first .. last) \cup {h.cycle} = first .. h.cycle
        BY <4>1
      <4> QED BY <1>3, <2>7, <3>2, <4>1, <4>2 DEF Covers
    <3> QED BY <1>2, <1>3, <2>4, <2>7, <3>1, <3>2
  <2> QED BY <2>6, <2>7
<1> QED BY <1>5, <1>6

LEMMA FrameRecords ==
  RecorderInv /\ ReadFrame =>
    /\ RecordingInv'
    /\ On' /\ worker' \in Worker /\ stream' \in Seq(Frame)
    /\ recordings' \in Seq(Recording) /\ Len(recordings') <= MaxCycle \div 2
    /\ pending' \in Seq(Ids)
<1> SUFFICES ASSUME RecorderInv, ReadFrame
             PROVE  /\ RecordingInv'
                    /\ On' /\ worker' \in Worker /\ stream' \in Seq(Frame)
                    /\ recordings' \in Seq(Recording) /\ Len(recordings') <= MaxCycle \div 2
                    /\ pending' \in Seq(Ids)
  OBVIOUS
<1>1. /\ RecorderTypes /\ On /\ StreamInv /\ WorkerInv /\ ClosedInv /\ stream # <<>>
  BY DEF RecorderInv, RecordingInv, ReadFrame
<1>2. PICK h \in Frame : h = Head(stream)
  BY <1>1, ObservedFrame
<1>3. PICK r : r = Observed(h)
  OBVIOUS
<1>4. PICK now \in Nat, n \in Nat, old \in Nat, past \in Nat :
        /\ now = h.cycle /\ n = Len(stream) /\ old = Len(recordings) /\ past = servo.cycle
        /\ h.armed \in BOOLEAN
  BY <1>1, LastReadType DEF RecorderTypes, Frame
<1>5. /\ LastRead < now /\ now <= past /\ (h.armed <=> now \in armed)
      /\ h.armed => /\ r \in Recording
                    /\ r.missing = 0 => \E first \in armed : Covers(r.frames, first, now)
      /\ ~h.armed =>
           \/ worker.active = None /\ r = None
           \/ /\ worker.active # None /\ r \in Recording
              /\ r.missing = 0 => \E first \in armed : Covers(r.frames, first, now - 1)
  BY <1>1, <1>2, <1>3, <1>4, ObservedFrame
<1>6. /\ LastRead \in Nat /\ past <= MaxCycle /\ MaxCycle \in Nat
      /\ worker \in Worker /\ n > 0
      /\ \A i \in 1 .. n : stream[i] \in Frame
      /\ stream \in Seq(Frame) /\ recordings \in Seq(Recording) /\ pending \in Seq(Ids)
  BY <1>1, <1>4, LastReadType, RecorderFacts DEF RecorderTypes
<1>7. /\ worker' = [worker EXCEPT !.reads = @ + 1,
                                  !.previous = [cycle |-> now, armed |-> h.armed],
                                  !.active = IF h.armed THEN r ELSE None]
      /\ stream' = Tail(stream) /\ UNCHANGED <<servo, armed>>
      /\ IF ~h.armed /\ r # None
         THEN recordings' = Append(recordings, r) /\ pending' = Append(pending, old + 1)
         ELSE UNCHANGED <<recordings, pending>>
  BY <1>2, <1>3, <1>4 DEF ReadFrame
<1>8. /\ worker' \in Worker /\ On'
      /\ worker'.previous = [cycle |-> now, armed |-> h.armed] /\ worker'.previous # None
      /\ worker'.active = IF h.armed THEN r ELSE None
      /\ h.armed => r # None
  <2>1. [cycle |-> now, armed |-> h.armed] \in Read
    BY <1>4 DEF Read
  <2>2. (IF h.armed THEN r ELSE None) \in Recording \cup {None}
    BY <1>5
  <2>3. worker' \in Worker
    <3>1. PICK previous \in Read, active \in Recording \cup {None}, reads \in Nat :
            worker' = [worker EXCEPT !.reads = reads, !.previous = previous, !.active = active]
      <4>1. worker.reads + 1 \in Nat
        BY <1>6 DEF Worker
      <4> QED BY <1>7, <2>1, <2>2, <4>1
    <3> QED BY <1>6, <3>1 DEF Worker
  <2> QED BY <1>5, <1>6, <1>7, <2>1, <2>3, RecorderFacts DEF Worker, On
<1>9. LastRead' = now
  BY <1>8 DEF LastRead
<1>10. /\ stream' \in Seq(Frame) /\ Len(stream') = n - 1
       /\ \A i \in 1 .. n - 1 : stream'[i] = stream[i + 1] /\ i + 1 \in 1 .. n
       /\ stream[1].cycle = now
  BY <1>1, <1>2, <1>4, <1>6, <1>7
<1>11. \A i \in 1 .. n : Before(i)' = Before(i + 1)
  <2> SUFFICES ASSUME NEW i \in 1 .. n PROVE Before(i)' = Before(i + 1)
    OBVIOUS
  <2>1. CASE i = 1
    BY <1>9, <1>10, <2>1 DEF Before
  <2>2. CASE i # 1
    <3>1. i - 1 \in 1 .. n - 1 /\ i + 1 # 1 /\ (i + 1) - 1 = i /\ (i - 1) + 1 = i
      BY <2>2
    <3> QED BY <1>10, <2>2, <3>1 DEF Before
  <2> QED BY <2>1, <2>2
<1>12. StreamInv'
  <2>1. ASSUME NEW i \in 1 .. n - 1
        PROVE  /\ Before(i)' < stream'[i].cycle /\ stream'[i].cycle <= servo'.cycle
               /\ stream'[i].armed <=> stream'[i].cycle \in armed'
               /\ ~stream'[i].gap => OffBetween(Before(i), stream[i].cycle)'
    <3>1. PICK j \in 1 .. n : j = i + 1 /\ stream'[i] = stream[j] /\ Before(i)' = Before(j)
      BY <1>10, <1>11
    <3>2. /\ Before(j) < stream[j].cycle /\ stream[j].cycle <= servo.cycle
          /\ stream[j].armed <=> stream[j].cycle \in armed
          /\ ~stream[j].gap => OffBetween(Before(j), stream[j].cycle)
      BY <1>1, <1>4 DEF StreamInv
    <3> QED BY <1>7, <3>1, <3>2 DEF OffBetween
  <2>2. Before(Len(stream) + 1)' = Before(n + 1)
    <3>1. Len(stream') + 1 = n /\ n \in 1 .. n
      BY <1>6, <1>10
    <3> QED BY <1>11, <3>1 DEF Before
  <2>3. Before(Len(stream) + 1)' <= servo'.cycle
    BY <1>1, <1>4, <1>7, <2>2 DEF StreamInv
  <2>4. ~servo'.gap => OffBetween(Before(Len(stream) + 1), servo.cycle + 1)'
    BY <1>1, <1>4, <1>7, <2>2 DEF StreamInv, OffBetween
  <2>5. armed' \subseteq 1 .. servo'.cycle
    BY <1>1, <1>7 DEF StreamInv
  <2> QED BY <1>10, <2>1, <2>3, <2>4, <2>5 DEF StreamInv
<1>13. PICK one \in {0, 1} : /\ one = IF worker.active = None THEN 0 ELSE 1
                            /\ 2 * old + one <= LastRead
  BY <1>1, <1>4 DEF WorkerInv
<1>14. /\ recordings' \in Seq(Recording) /\ pending' \in Seq(Ids)
       /\ Len(recordings') <= MaxCycle \div 2
       /\ 2 * Len(recordings') + (IF worker'.active = None THEN 0 ELSE 1) <= now
  <2>1. CASE ~h.armed /\ r # None
    <3>1. r \in Recording /\ one = 1 /\ worker'.active = None
      BY <1>5, <1>8, <1>13, <2>1
    <3>2. 2 * (old + 1) <= now /\ old + 1 <= MaxCycle \div 2
      BY <1>5, <1>6, <1>13, <3>1
    <3>3. old + 1 \in Ids
      BY <1>4, <1>6, <3>2 DEF Ids
    <3>4. recordings' = Append(recordings, r) /\ pending' = Append(pending, old + 1)
      BY <1>7, <2>1
    <3>5. recordings' \in Seq(Recording) /\ Len(recordings') = old + 1
      BY <1>4, <1>6, <3>1, <3>4
    <3>6. pending' \in Seq(Ids)
      BY <1>6, <3>3, <3>4
    <3> QED BY <3>1, <3>2, <3>5, <3>6
  <2>2. CASE h.armed \/ r = None
    <3>1. UNCHANGED <<recordings, pending>>
      BY <1>7, <2>2
    <3>2. 2 * old + 1 <= now
      BY <1>5, <1>6, <1>13
    <3> QED BY <1>1, <1>4, <1>6, <3>1, <3>2 DEF RecorderTypes
  <2> QED BY <2>1, <2>2
<1>15. WorkerInv'
  <2>1. worker'.previous.armed <=> worker'.previous.cycle \in armed'
    BY <1>5, <1>7, <1>8
  <2>2. worker'.active # None <=> worker'.previous.armed
    BY <1>8
  <2>3. ASSUME worker'.active # None, worker'.active.missing = 0
        PROVE  \E first \in armed' :
                 Covers(worker.active.frames, first, worker.previous.cycle)'
    <3>1. h.armed /\ worker'.active = r /\ worker'.previous.cycle = now
      BY <1>8, <2>3
    <3> QED BY <1>5, <1>7, <2>3, <3>1 DEF Covers
  <2> QED BY <1>8, <1>9, <1>14, <2>1, <2>2, <2>3 DEF WorkerInv
<1>16. ClosedInv'
  <2>1. \A c : Closed(c) => Closed(c)'
    BY <1>1, <1>7, <1>8 DEF Closed, Covers
  <2>2. ASSUME ~h.armed, r # None PROVE Closed(r)'
    <3> SUFFICES ASSUME r.missing = 0
                 PROVE  \E first, last \in armed :
                          /\ Covers(r.frames, first, last) /\ last + 1 \notin armed
                          /\ last < past
      BY <1>4, <1>7 DEF Closed, Covers
    <3>1. PICK first \in armed : Covers(r.frames, first, now - 1)
      BY <1>5, <2>2
    <3>2. now - 1 \in armed /\ (now - 1) + 1 = now /\ now - 1 < past
      BY <1>5, <3>1 DEF Covers
    <3> QED BY <1>5, <2>2, <3>1, <3>2
  <2>3. CASE ~h.armed /\ r # None
    <3>1. /\ DOMAIN recordings' = (DOMAIN recordings) \cup {old + 1}
          /\ \A id \in DOMAIN recordings : recordings'[id] = recordings[id]
          /\ recordings'[old + 1] = r
      <4>1. r \in Recording
        BY <1>5, <2>3
      <4>2. recordings' = Append(recordings, r)
        BY <1>7, <2>3
      <4>3. /\ DOMAIN recordings = 1 .. old /\ DOMAIN recordings' = 1 .. old + 1
            /\ \A id \in 1 .. old : recordings'[id] = recordings[id]
            /\ recordings'[old + 1] = r
        BY <1>4, <1>6, <4>1, <4>2
      <4>4. 1 .. old + 1 = (1 .. old) \cup {old + 1}
        OBVIOUS
      <4> QED BY <4>3, <4>4
    <3>2. ASSUME NEW id \in DOMAIN recordings' PROVE Closed(recordings[id])'
      <4>1. PICK c : c = recordings'[id]
        OBVIOUS
      <4>2. Closed(c)'
        BY <1>1, <2>1, <2>2, <2>3, <3>1, <4>1 DEF ClosedInv
      <4> QED BY <4>1, <4>2 DEF Closed, Covers
    <3> QED BY <3>2 DEF ClosedInv
  <2>4. CASE h.armed \/ r = None
    <3>1. recordings' = recordings
      BY <1>7, <2>4
    <3>2. ASSUME NEW id \in DOMAIN recordings' PROVE Closed(recordings[id])'
      <4>1. PICK c : c = recordings'[id]
        OBVIOUS
      <4>2. Closed(c)'
        BY <1>1, <2>1, <3>1, <4>1 DEF ClosedInv
      <4> QED BY <4>1, <4>2 DEF Closed, Covers
    <3> QED BY <3>2 DEF ClosedInv
  <2> QED BY <2>3, <2>4
<1> QED BY <1>8, <1>10, <1>12, <1>14, <1>15, <1>16 DEF RecordingInv
-----------------------------------------------------------------------------
(* The steps                                                                *)

LEMMA DiskKept ==
  ASSUME DiskInv, UNCHANGED <<writer, disk, saved>>
  PROVE  DiskInv'
BY DEF DiskInv, NamedIsWhole, WriterOK

LEMMA CaptureKeeps == RecorderInv /\ Capture => RecorderInv'
<1> SUFFICES ASSUME RecorderInv, Capture PROVE RecorderInv'
  OBVIOUS
<1>1. RecordingInv' /\ DiskInv'
  BY CaptureRecords, DiskKept DEF RecorderInv, Capture
<1>2. RecorderTypes'
  <2>1. RecorderTypes /\ StreamInv /\ On /\ servo.cycle \in Nat
    BY LastReadType DEF RecorderInv, RecordingInv, Capture
  <2>2. servo.cycle + 1 \in 0 .. MaxCycle /\ servo.cycle + 1 \in Nat
    BY <2>1, RecorderFacts DEF Capture
  <2>3. PICK on \in BOOLEAN, gap \in BOOLEAN : on = (mode /\ record) /\ gap = servo.gap
    BY <2>1 DEF RecorderTypes, Servo
  <2>4. servo' \in Servo
    <3>1. /\ mode \in BOOLEAN /\ servo.gap \in BOOLEAN
          /\ \A a, b : (a /\ ~b) \in BOOLEAN
          /\ \A a, b : (IF a THEN servo.gap ELSE ~b) \in BOOLEAN
      BY <2>1, <2>3 DEF RecorderTypes
    <3>2. PICK a \in BOOLEAN, b \in BOOLEAN, c \in BOOLEAN :
            servo' = [cycle |-> servo.cycle + 1, mode |-> a, pendingOff |-> b, gap |-> c]
      BY <3>1, Zenon DEF Capture
    <3> QED BY <2>2, <3>2 DEF Servo
  <2>5. stream' \in Seq(Frame)
    <3>1. PICK f \in Frame :
            f = [cycle |-> servo.cycle + 1, armed |-> (mode /\ record), gap |-> servo.gap]
      BY <2>2, <2>3 DEF Frame
    <3>2. stream' = stream \/ stream' = Append(stream, f)
      BY <3>1 DEF Capture, GapFlag
    <3>3. stream \in Seq(Frame)
      BY <2>1 DEF RecorderTypes
    <3> HIDE DEF Frame
    <3>4. Append(stream, f) \in Seq(Frame)
      BY <3>3, f \in Frame
    <3> QED BY <3>2, <3>3, <3>4
  <2> QED BY <2>1, <2>4, <2>5 DEF RecorderTypes, Capture, pins, memory
<1> QED BY <1>1, <1>2 DEF RecorderInv

LEMMA ReadFrameKeeps == RecorderInv /\ ReadFrame => RecorderInv'
<1> SUFFICES ASSUME RecorderInv, ReadFrame PROVE RecorderInv'
  OBVIOUS
<1>1. RecordingInv' /\ DiskInv'
  BY FrameRecords, DiskKept DEF RecorderInv, ReadFrame
<1>2. RecorderTypes'
  BY FrameRecords DEF RecorderInv, RecorderTypes, ReadFrame, pins
<1> QED BY <1>1, <1>2 DEF RecorderInv

LEMMA EndPassKeeps == RecorderInv /\ EndPass => RecorderInv'
<1> SUFFICES ASSUME RecorderInv, EndPass PROVE RecorderInv'
  OBVIOUS
<1>1. /\ RecorderTypes /\ RecordingInv /\ DiskInv /\ On
      /\ worker \in Worker /\ pending \in Seq(Ids)
      /\ writer \in Writer \cup {None} /\ disk \in [Ids -> Files] /\ saved \subseteq Ids
  BY DEF RecorderInv, RecorderTypes, EndPass, On
<1>2. worker'.previous = worker.previous /\ worker'.active = worker.active /\ worker' \in Worker
  <2>1. StillFailed \in BOOLEAN
    BY <1>1 DEF StillFailed
  <2>2. PICK failed \in BOOLEAN : Continue(failed)
    BY <2>1 DEF EndPass
  <2> QED BY <1>1, <2>2 DEF Continue, Worker
<1>3. RecordingInv'
  <2>1. On /\ On' /\ worker # None /\ worker' # None
    BY <1>1, <1>2, RecorderFacts DEF On
  <2> QED BY <1>1, <1>2, <2>1, RecordingKept DEF EndPass
<1>4. Waiting \in Seq(Ids)
  <2>1. CASE WriterAt("failed")
    <3>1. writer.id \in Ids
      BY <1>1, <2>1, RecorderFacts DEF WriterAt, Writer
    <3>2. <<writer.id>> \in Seq(Ids)
      BY <3>1
    <3> QED BY <1>1, <2>1, <3>2, ConcatProperties DEF Waiting, KeptOnFailure
  <2>2. CASE ~WriterAt("failed")
    BY <1>1, <2>2 DEF Waiting
  <2> QED BY <2>1, <2>2
<1>5. /\ pending' \in Seq(Ids)
      /\ \/ writer' = writer
         \/ writer' = None
         \/ \E id \in Ids : writer' = [id |-> id, step |-> FirstStep(id)]
  <2>1. CASE pending' = Waiting /\ (writer' = writer \/ writer' = None)
    BY <1>4, <2>1
  <2>2. CASE /\ Waiting # <<>> /\ pending' = Tail(Waiting)
             /\ writer' = [id |-> Head(Waiting), step |-> FirstStep(Head(Waiting))]
    <3>1. Head(Waiting) \in Ids /\ Tail(Waiting) \in Seq(Ids)
      BY <1>4, <2>2
    <3> QED BY <2>2, <3>1
  <2> QED BY <2>1, <2>2 DEF EndPass
<1>6. /\ saved' \subseteq Ids
      /\ \A id \in saved' : disk[id].named /\ disk[id].durable
  <2>1. \A id \in saved : disk[id].named /\ disk[id].durable
    BY <1>1 DEF DiskInv
  <2>2. WriterAt("saved") =>
          writer.id \in Ids /\ disk[writer.id].named /\ disk[writer.id].durable
    BY <1>1 DEF DiskInv, WriterOK, WriterAt, Writer
  <2> QED BY <1>1, <2>1, <2>2 DEF EndPass
<1>7. /\ disk' = disk /\ writer' \in Writer \cup {None} /\ WriterOK'
  <2>1. disk' = disk
    BY DEF EndPass
  <2>2. CASE writer' = writer \/ writer' = None
    BY <1>1, <2>1, <2>2 DEF DiskInv, WriterOK
  <2>3. CASE \E id \in Ids : writer' = [id |-> id, step |-> FirstStep(id)]
    <3>1. PICK id \in Ids : writer' = [id |-> id, step |-> FirstStep(id)]
      BY <2>3
    <3>2. \/ FirstStep(id) = "unlink" /\ disk[id].named
          \/ FirstStep(id) = "create" /\ ~disk[id].named
      BY DEF FirstStep
    <3>3. writer' \in Writer
      BY <3>1, <3>2 DEF Writer, Saving
    <3>4. WriterOK'
      BY <2>1, <3>1, <3>2 DEF WriterOK
    <3> QED BY <2>1, <3>3, <3>4
  <2> QED BY <1>5, <2>1, <2>2, <2>3
<1>8. DiskInv'
  BY <1>1, <1>6, <1>7 DEF DiskInv, NamedIsWhole
<1>9. RecorderTypes'
  BY <1>1, <1>2, <1>5, <1>6, <1>7 DEF RecorderTypes, EndPass, pins
<1> QED BY <1>3, <1>8, <1>9 DEF RecorderInv

(* What a call of save() makes of its file, and how far it has come then.   *)
LEMMA SaveCalls ==
  ASSUME RecorderTypes, DiskInv, WriterStep
  PROVE  /\ writer \in Writer
         /\ UNCHANGED <<pins, servo, stream, worker, memory, saved, ui, faults, armed>>
         /\ \E next \in Saving \cup {"saved"}, file \in Files :
              /\ writer' = [writer EXCEPT !.step = next]
              /\ disk' = [disk EXCEPT ![writer.id] = file]
              /\ file.named => file.content = "whole"
              /\ next \in {"create", "write"} => ~file.named
              /\ next = "link" => file.content = "whole"
              /\ next \in {"unlink", "sync", "saved"} => file.named
              /\ next = "saved" => file.durable
              /\ File.named => file.named
              /\ File.durable => file.durable
<1>1. /\ writer \in Writer
      /\ UNCHANGED <<pins, servo, stream, worker, memory, saved, ui, faults, armed>>
  BY DEF WriterStep, Create, WriteAndSync, HardLink, Unlink, SyncDirectory, WriterDoes,
         WriterAt, RecorderTypes
<1>2. PICK f \in Files : f = File
  BY <1>1 DEF RecorderTypes, Writer, File
<1>3. /\ f.named => f.content = "whole"
      /\ WriterAt("create") \/ WriterAt("write") => ~f.named
      /\ WriterAt("link") => f.content = "whole"
      /\ WriterAt("unlink") \/ WriterAt("sync") => f.named
  BY <1>1, <1>2 DEF DiskInv, NamedIsWhole, WriterOK, WriterAt, File, Writer, RecorderTypes
<1> DEFINE Result(next, file) ==
             /\ writer' = [writer EXCEPT !.step = next]
             /\ disk' = [disk EXCEPT ![writer.id] = file]
             /\ file.named => file.content = "whole"
             /\ next \in {"create", "write"} => ~file.named
             /\ next = "link" => file.content = "whole"
             /\ next \in {"unlink", "sync", "saved"} => file.named
             /\ next = "saved" => file.durable
             /\ f.named => file.named
             /\ f.durable => file.durable
<1>4. CASE Create
  <2> DEFINE file == [f EXCEPT !.partial = TRUE, !.content = "part"]
  <2>1. file \in Files
    BY DEF Files, Contents
  <2>2. Result("write", file)
    BY <1>2, <1>3, <1>4 DEF Create, WriterDoes, Files
  <2> QED BY <1>1, <1>2, <2>1, <2>2 DEF Saving
<1>5. CASE WriteAndSync
  <2> DEFINE file == [f EXCEPT !.content = "whole"]
  <2>1. file \in Files
    BY DEF Files, Contents
  <2>2. Result("link", file)
    BY <1>2, <1>3, <1>5 DEF WriteAndSync, WriterDoes, Files
  <2> QED BY <1>1, <1>2, <2>1, <2>2 DEF Saving
<1>6. CASE HardLink
  <2> DEFINE file == [f EXCEPT !.named = TRUE]
  <2>1. file \in Files
    BY DEF Files, Contents
  <2>2. Result("unlink", file)
    BY <1>2, <1>3, <1>6 DEF HardLink, WriterDoes, Files
  <2> QED BY <1>1, <1>2, <2>1, <2>2 DEF Saving
<1>7. CASE Unlink
  <2> DEFINE file == [f EXCEPT !.partial = FALSE]
  <2>1. file \in Files
    BY DEF Files, Contents
  <2>2. Result("sync", file)
    BY <1>2, <1>3, <1>7 DEF Unlink, WriterDoes, Files
  <2> QED BY <1>1, <1>2, <2>1, <2>2 DEF Saving
<1>8. CASE SyncDirectory
  <2> DEFINE file == [f EXCEPT !.durable = TRUE]
  <2>1. file \in Files
    BY DEF Files, Contents
  <2>2. Result("saved", file)
    BY <1>2, <1>3, <1>8 DEF SyncDirectory, WriterDoes, DirectorySynced, Files
  <2> QED BY <1>1, <1>2, <2>1, <2>2 DEF Saving
<1> QED BY <1>4, <1>5, <1>6, <1>7, <1>8 DEF WriterStep

LEMMA WriterKeeps == RecorderInv /\ WriterStep => RecorderInv'
<1> SUFFICES ASSUME RecorderInv, WriterStep PROVE RecorderInv'
  OBVIOUS
<1>1. /\ RecorderTypes /\ RecordingInv /\ DiskInv /\ writer \in Writer
      /\ UNCHANGED <<pins, servo, stream, worker, memory, saved, ui, faults, armed>>
  BY SaveCalls DEF RecorderInv
<1>2. PICK next \in Saving \cup {"saved"}, file \in Files :
        /\ writer' = [writer EXCEPT !.step = next]
        /\ disk' = [disk EXCEPT ![writer.id] = file]
        /\ file.named => file.content = "whole"
        /\ next \in {"create", "write"} => ~file.named
        /\ next = "link" => file.content = "whole"
        /\ next \in {"unlink", "sync", "saved"} => file.named
        /\ next = "saved" => file.durable
        /\ File.named => file.named
        /\ File.durable => file.durable
  BY SaveCalls DEF RecorderInv
<1>3. PICK id \in Ids : id = writer.id
  BY <1>1 DEF Writer
<1>4. /\ disk \in [Ids -> Files] /\ disk' \in [Ids -> Files] /\ disk'[id] = file
      /\ \A other \in Ids : other # id => disk'[other] = disk[other]
      /\ File = disk[id]
  BY <1>1, <1>2, <1>3 DEF RecorderTypes, File
<1>5. writer' \in Writer /\ writer'.id = id /\ writer'.step = next
  BY <1>1, <1>2, <1>3 DEF Writer
<1>6. RecordingInv'
  BY <1>1, RecordingKept DEF memory
<1>7. DiskInv'
  <2>1. NamedIsWhole'
    BY <1>1, <1>2, <1>4 DEF DiskInv, NamedIsWhole
  <2>2. WriterOK'
    BY <1>2, <1>4, <1>5 DEF WriterOK
  <2>3. ASSUME NEW other \in saved' PROVE disk'[other].named /\ disk'[other].durable
    <3>1. other \in Ids /\ disk[other].named /\ disk[other].durable
      BY <1>1 DEF DiskInv, RecorderTypes
    <3> QED BY <1>2, <1>4, <3>1
  <2> QED BY <2>1, <2>2, <2>3 DEF DiskInv
<1>8. RecorderTypes'
  BY <1>1, <1>4, <1>5 DEF RecorderTypes, pins, memory
<1> QED BY <1>6, <1>7, <1>8 DEF RecorderInv

LEMMA WriterFailsKeeps == RecorderInv /\ WriterFails => RecorderInv'
<1> SUFFICES ASSUME RecorderInv, WriterFails PROVE RecorderInv'
  OBVIOUS
<1>1. /\ RecorderTypes /\ RecordingInv /\ DiskInv /\ writer \in Writer
      /\ UNCHANGED <<pins, servo, stream, worker, memory, disk, saved, ui, armed>>
  BY DEF RecorderInv, RecorderTypes, WriterFails
<1>2. PICK step \in {"failed", "died"} : writer' = [writer EXCEPT !.step = step]
  BY DEF WriterFails
<1>3. writer' \in Writer /\ writer'.step = step
  BY <1>1, <1>2 DEF Writer
<1>4. RecordingInv'
  BY <1>1, RecordingKept DEF memory
<1>5. DiskInv'
  BY <1>1, <1>2, <1>3 DEF DiskInv, NamedIsWhole, WriterOK
<1>6. RecorderTypes'
  BY <1>1, <1>3 DEF RecorderTypes, pins, memory
<1> QED BY <1>4, <1>5, <1>6 DEF RecorderInv

LEMMA PowerLossKeeps == RecorderInv /\ PowerLoss => RecorderInv'
<1> SUFFICES ASSUME RecorderInv, PowerLoss PROVE RecorderInv'
  OBVIOUS
<1>1. /\ RecorderTypes /\ ClosedInv /\ DiskInv /\ disk \in [Ids -> Files]
      /\ saved \subseteq Ids
  BY DEF RecorderInv, RecordingInv, RecorderTypes
<1>2. PICK lost \in SUBSET {id \in Ids : disk[id].named /\ ~disk[id].durable} :
        disk' = [id \in Ids |->
                   IF id \in lost THEN [disk[id] EXCEPT !.named = FALSE] ELSE disk[id]]
  <2>1. DOMAIN disk = Ids
    BY <1>1
  <2> QED BY <2>1, Zenon DEF PowerLoss
<1>3. ASSUME NEW id \in Ids
      PROVE  /\ disk'[id] \in Files /\ disk'[id].content = disk[id].content
             /\ disk'[id].durable = disk[id].durable
             /\ disk'[id].named => disk[id].named
             /\ disk[id].durable => disk'[id].named = disk[id].named
  <2>1. disk[id] \in Files
    BY <1>1
  <2>2. disk'[id] = IF id \in lost THEN [disk[id] EXCEPT !.named = FALSE] ELSE disk[id]
    BY <1>2
  <2>3. [disk[id] EXCEPT !.named = FALSE] \in Files
    BY <2>1 DEF Files
  <2> QED BY <1>2, <2>1, <2>2, <2>3 DEF Files
<1>4. disk' \in [Ids -> Files]
  BY <1>2, <1>3
<1>5. ~On' /\ RecordingInv'
  <2>1. ~On' /\ UNCHANGED <<recordings, armed>>
    BY DEF PowerLoss, On
  <2>2. ClosedInv'
    BY <1>1, <2>1 DEF ClosedInv, Closed, Covers
  <2> QED BY <2>1, <2>2 DEF RecordingInv
<1>6. DiskInv'
  BY <1>1, <1>3, <1>4 DEF DiskInv, NamedIsWhole, WriterOK, PowerLoss
<1>7. RecorderTypes'
  <2>1. /\ retry' = 0 /\ servo' \in Servo /\ stream' \in Seq(Frame) /\ worker' = None
        /\ pending' \in Seq(Ids) /\ writer' = None
        /\ UNCHANGED <<recordings, saved>>
    BY RecorderFacts DEF PowerLoss
  <2>2. mode' \in BOOLEAN /\ record' \in BOOLEAN
    BY DEF PowerLoss
  <2> QED BY <1>1, <1>4, <2>1, <2>2 DEF RecorderTypes
<1> QED BY <1>5, <1>6, <1>7 DEF RecorderInv

(* AXIS, which writes pins.                                                 *)
LEMMA AxisKeeps ==
  ASSUME RecorderInv,
         Poll \/ GiveUp \/ ToggleMode \/ ToggleRecord \/ RetrySave \/ UNCHANGED vars
  PROVE  RecorderInv'
<1>1. /\ RecorderTypes /\ RecordingInv /\ DiskInv /\ UNCHANGED Rest
  BY DEF RecorderInv, Rest, Poll, GiveUp, ToggleMode, ToggleRecord, RetrySave,
         vars, memory
<1>2. mode' \in BOOLEAN /\ record' \in BOOLEAN /\ retry' \in Nat
  <2>1. (retry + 1) % Retries \in Nat
    BY <1>1, RecorderAssumption DEF RecorderTypes
  <2>2. (record /\ ~mode) \in BOOLEAN
    OBVIOUS
  <2>3. CASE UNCHANGED pins
    BY <1>1, <2>3 DEF RecorderTypes, pins
  <2>4. CASE ToggleMode
    BY <1>1, <2>2, <2>4 DEF RecorderTypes, ToggleMode
  <2>5. CASE ToggleRecord
    BY <1>1, <2>5 DEF RecorderTypes, ToggleRecord
  <2>6. CASE RetrySave
    BY <1>1, <2>1, <2>6 DEF RecorderTypes, RetrySave
  <2> QED BY <2>3, <2>4, <2>5, <2>6 DEF Poll, GiveUp, vars
<1>3. RecordingInv'
  BY <1>1, RecordingKept DEF Rest, memory
<1>4. DiskInv'
  BY <1>1, DiskKept DEF Rest
<1>5. RecorderTypes'
  BY <1>1, <1>2 DEF RecorderTypes, Rest, memory
<1> QED BY <1>3, <1>4, <1>5 DEF RecorderInv

LEMMA RecorderStep == RecorderInv /\ [Next]_vars => RecorderInv'
BY CaptureKeeps, ReadFrameKeeps, EndPassKeeps, WriterKeeps, WriterFailsKeeps,
   PowerLossKeeps, AxisKeeps
DEF Next, WorkerStep

LEMMA RecorderInvariance == Spec => []RecorderInv
BY InitialRecorder, RecorderStep, PTL DEF Spec
-----------------------------------------------------------------------------
(* What a recording says, and what is on the disk                           *)

(* A recording that says nothing is missing has every period in which       *)
(* recording was on, from the one after it was turned on to the one before  *)
(* it was turned off, whatever the stream dropped in between (capture,      *)
(* observe, push).                                                          *)
THEOREM CompleteRecordings == Spec => []CompleteMeansAll
<1>1. RecorderInv => CompleteMeansAll
  BY DEF RecorderInv, RecordingInv, ClosedInv, Closed, Covers, CompleteMeansAll
<1> QED BY <1>1, RecorderInvariance, PTL

(* A file under the final name is a whole recording, though any call of     *)
(* save() fails, saves are repeated and the power goes at any time.         *)
THEOREM NamedFilesAreWhole == Spec => []NamedIsWhole
<1>1. RecorderInv => NamedIsWhole
  BY DEF RecorderInv, DiskInv
<1> QED BY <1>1, RecorderInvariance, PTL

(* What was shown as saved is still under its name after a power loss.      *)
THEOREM SavedFilesAreThere == Spec => []SavedIsDurable
<1>1. RecorderInv => SavedIsDurable
  BY DEF RecorderInv, DiskInv, SavedIsDurable
<1> QED BY <1>1, RecorderInvariance, PTL
===============================================================================
