-------------------------- MODULE PendantLink_proofs --------------------------
(***************************************************************************)
(* Proofs about the pendant's serial link, for every width of the sequence, *)
(* any number of lines under way and any run of losses it can tell from a   *)
(* repetition: the dropped-packet counter counts the lost packets, and a    *)
(* quadrature fault is held until the decoder restarts or is told to let go.*)
(*                                                                         *)
(* The first rests on a chain from the packet the bridge accepted last      *)
(* through the lines under way to the next one the decoder will send: each  *)
(* packet's sequence is that of the packet before it, advanced by itself    *)
(* and by those lost between the two.  A restart, a garbled line and a      *)
(* closed port break the chain, and at each of them the bridge forgets what *)
(* it would compare the next packet with.                                   *)
(***************************************************************************)
EXTENDS PendantLink, SequenceTheorems, TLAPS

Counts == 0 .. CounterModulus - 1
Bridge ==
  [connected: BOOLEAN, serialFault: BOOLEAN, quadratureFault: BOOLEAN,
   pressed: BOOLEAN, deadman: BOOLEAN, errors: Errors, ack: Requests,
   dropped: Counts, missed: Counts,
   age: Ages \cup {None}, previous: Sequences32 \cup {None},
   previousErrors: Errors \cup {None}, baseline: BOOLEAN,
   lastRequest: Requests, pending: PendingReset \cup {None}]
Decoder == [sequence: Sequences32, errors: Errors, missed: 0 .. LossWindow, pressed: BOOLEAN]
Line == Packets \cup {Boot, Garbled}

LinkTypes ==
  /\ decoder \in Decoder /\ wire \in Seq(Line) /\ bridge \in Bridge
  /\ port \in {"closed", "open"}
  /\ runtime \in [generation: Requests, request: Requests]

(* The sequence of the packet just before the i-th line, if it is known.    *)
Prior(i) ==
  IF i = 1 THEN bridge.previous
  ELSE IF wire[i - 1].kind = "packet" THEN wire[i - 1].sequence ELSE None

(* A packet after the one with sequence s, and after m that were lost.      *)
Follows(s, m, t) == s # None => t = (s + m + 1) % SequenceModulus

Chain ==
  /\ \A i \in 1 .. Len(wire) :
       wire[i].kind = "packet" =>
         /\ wire[i].missed \in 0 .. LossWindow
         /\ Follows(Prior(i), wire[i].missed, wire[i].sequence)
  /\ Follows(Prior(Len(wire) + 1), decoder.missed, decoder.sequence)

LinkInv ==
  /\ LinkTypes /\ Chain
  /\ port = "closed" => wire = <<>> /\ bridge.previous = None
  /\ DropsAreCounted
-----------------------------------------------------------------------------
(* Sequences                                                                *)

LEMMA LinkFacts ==
  /\ SequenceModulus \in Nat /\ SequenceModulus >= 4
  /\ LossWindow \in Nat /\ LossWindow + 1 < SequenceModulus \div 2
  /\ SequenceModulus \div 2 \in Nat /\ SequenceModulus \div 2 < SequenceModulus
  /\ CounterModulus \in Nat /\ CounterModulus > 0 /\ PacketTimeout \in Nat
  /\ MaxErrors \in Nat /\ MaxRequests \in Nat
  /\ None \notin Int /\ None \notin PendingReset
BY BridgeAssumption, LinkAssumption

(* The decoder's counter goes on by one for each packet, sent or lost.      *)
LEMMA NextSequence ==
  ASSUME NEW s \in Sequences32
  PROVE  (s + 1) % SequenceModulus \in Sequences32
BY LinkFacts DEF Sequences32

LEMMA OneMoreLost ==
  ASSUME NEW s \in Sequences32, NEW m \in 0 .. LossWindow
  PROVE  (((s + m + 1) % SequenceModulus) + 1) % SequenceModulus
           = (s + (m + 1) + 1) % SequenceModulus
BY LinkFacts, SMT DEF Sequences32

(* The distance between two packets, from their sequences, across the wrap. *)
LEMMA DistanceIs ==
  ASSUME NEW s \in Sequences32, NEW m \in 0 .. LossWindow
  PROVE  (((s + m + 1) % SequenceModulus) - s) % SequenceModulus = m + 1
BY LinkFacts, SMT DEF Sequences32
-----------------------------------------------------------------------------
(* The bridge                                                               *)

(* What the bridge's operations leave of the link's last packet, of the two *)
(* counts and of the latched fault.                                         *)
SameCounts(b, c) == c.dropped = b.dropped /\ c.missed = b.missed
SameLink(b, c) ==
  /\ SameCounts(b, c)
  /\ c.previous = b.previous /\ c.connected = b.connected
  /\ c.quadratureFault = b.quadratureFault

LEMMA ObservedReset ==
  ASSUME NEW b \in Bridge, NEW request \in Requests
  PROVE  LET c == ObserveFaultReset(b, request)
         IN  /\ c \in Bridge /\ SameLink(b, c)
             /\ c.pending # None => b.pending # None \/ request # 0
<1>1. CASE request = 0
  BY <1>1 DEF ObserveFaultReset, Bridge, SameLink, SameCounts
<1>2. CASE request # 0 /\ request = b.lastRequest
  BY <1>2 DEF ObserveFaultReset, SameLink, SameCounts
<1>3. CASE request # 0 /\ request # b.lastRequest
  <2>1. ASSUME b.age # None, b.age <= PacketTimeout
        PROVE  [request |-> request, errors |-> b.errors, age |-> 0] \in PendingReset
    BY LinkFacts DEF PendingReset, Bridge, Ages
  <2>2. PICK pending \in PendingReset \cup {None} :
          ObserveFaultReset(b, request)
            = [b EXCEPT !.lastRequest = request, !.pending = pending]
    BY <1>3, <2>1 DEF ObserveFaultReset
  <2> QED BY <1>3, <2>2 DEF Bridge, SameLink, SameCounts
<1> QED BY <1>1, <1>2, <1>3

LEMMA SafeBridgeType == SafeBridge \in Bridge
BY LinkFacts DEF SafeBridge, Bridge, Errors, Requests, Counts

LEMMA SafeSnapshotIs ==
  ASSUME NEW b \in Bridge
  PROVE  LET c == SafeSnapshot(b)
         IN  /\ c \in Bridge /\ c.previous = None /\ SameCounts(b, c)
             /\ c.quadratureFault = b.quadratureFault
<1>1. 0 \in Requests
  BY LinkFacts DEF Requests
<1>2. SafeSnapshot(b) =
        [b EXCEPT !.pending = None, !.age = None, !.previous = None,
                  !.previousErrors = None, !.baseline = TRUE,
                  !.connected = FALSE, !.serialFault = TRUE, !.pressed = TRUE,
                  !.deadman = FALSE, !.ack = 0]
  BY DEF SafeSnapshot, Unlinked
<1>3. SafeSnapshot(b) \in Bridge
  BY <1>1, <1>2 DEF Bridge
<1> QED BY <1>2, <1>3 DEF Bridge, SameCounts

LEMMA ResetForBootIs ==
  ASSUME NEW b \in Bridge
  PROVE  LET c == ResetForBoot(b)
         IN  c \in Bridge /\ c.previous = None /\ SameCounts(b, c)
<1>1. PICK c \in Bridge : c = SafeSnapshot(b) /\ c.previous = None /\ SameCounts(b, c)
  BY SafeSnapshotIs
<1>2. ResetForBoot(b) = [c EXCEPT !.quadratureFault = FALSE, !.errors = 0]
  BY <1>1 DEF ResetForBoot
<1>3. 0 \in Errors
  BY LinkFacts DEF Errors
<1> QED BY <1>1, <1>2, <1>3, ZenonT(30) DEF Bridge, SameCounts

LEMMA ElapsedIs ==
  ASSUME NEW b \in Bridge
  PROVE  LET c == Elapsed(b) IN c \in Bridge /\ SameLink(b, c)
<1>1. \A age \in Ages : Older(age) \in Ages
  BY LinkFacts DEF Older, Ages
<1>2. PICK c \in Bridge : c = Aged(b) /\ SameLink(b, c) /\ c.pending = b.pending
  <2>1. Aged(b) \in Bridge
    BY <1>1 DEF Aged, Bridge
  <2> QED BY <2>1 DEF Aged, Bridge, SameLink, SameCounts
<1>3. b.pending # None => Aged(b.pending) \in PendingReset
  BY <1>1 DEF Aged, Bridge, PendingReset
<1>4. PICK pending \in PendingReset \cup {None} : Elapsed(b) = [c EXCEPT !.pending = pending]
  BY <1>2, <1>3 DEF Elapsed
<1> QED BY <1>2, <1>4 DEF Bridge, SameLink, SameCounts

LEMMA CheckTimeoutIs ==
  ASSUME NEW b \in Bridge
  PROVE  LET c == CheckTimeout(b)
         IN  /\ c \in Bridge /\ SameCounts(b, c) /\ c.quadratureFault = b.quadratureFault
             /\ IF TimedOut(b) THEN c.previous = None ELSE c.previous = b.previous
BY SafeSnapshotIs DEF CheckTimeout, SameCounts

(* A packet that is in order, and what it makes of the counts.              *)
LEMMA AcceptPacketIs ==
  ASSUME NEW b \in Bridge, NEW p \in Packets, p.missed \in 0 .. LossWindow,
         Follows(b.previous, p.missed, p.sequence), b.dropped = b.missed
  PROVE  LET c == AcceptPacket(b, p)
         IN  /\ c \in Bridge /\ c.previous = p.sequence /\ c.dropped = c.missed
             /\ b.quadratureFault /\ ~c.quadratureFault => ResetAccepted(b, p)
<1>1. /\ p.sequence \in Sequences32 /\ b.previous \in Sequences32 \cup {None}
      /\ b.dropped \in Counts /\ b.missed \in Counts /\ p.missed \in Nat
      /\ p.pressed \in BOOLEAN /\ p.deadman \in BOOLEAN /\ p.errors \in Errors
  BY DEF Packets, Bridge
<1>2. ASSUME b.previous # None
      PROVE  /\ Delta(b, p) = p.missed + 1 /\ Dropped(b, p) = p.missed
  <2>1. Delta(b, p) = p.missed + 1
    BY <1>1, <1>2, DistanceIs DEF Follows, Delta
  <2> QED BY <1>1, <2>1 DEF Dropped
<1>3. ~OutOfOrder(b, p)
  <2>1. ASSUME b.previous # None
        PROVE  Delta(b, p) # 0 /\ ~(Delta(b, p) >= SequenceModulus \div 2)
    BY <1>1, <1>2, <2>1, LinkFacts
  <2> QED BY <2>1 DEF OutOfOrder
<1>4. PICK count \in Counts :
        /\ (IF b.previous = None THEN b.dropped
            ELSE (b.dropped + Dropped(b, p)) % CounterModulus) = count
        /\ (IF b.previous = None THEN b.missed
            ELSE (b.missed + p.missed) % CounterModulus) = count
  <2>1. (b.missed + p.missed) % CounterModulus \in Counts
    BY <1>1, LinkFacts DEF Counts
  <2> QED BY <1>1, <1>2, <2>1
<1>5. PICK ack \in Requests :
        ack = IF ResetAccepted(b, p) THEN b.pending.request ELSE b.ack
  <2>1. ResetAccepted(b, p) => b.pending.request \in Requests
    BY DEF ResetAccepted, Bridge, PendingReset
  <2> QED BY <2>1 DEF Bridge
<1>6. PICK fault \in BOOLEAN :
        /\ fault = QuadratureFault(b, p)
        /\ b.quadratureFault /\ ~fault => ResetAccepted(b, p)
  <2>1. b.quadratureFault \in BOOLEAN
    BY DEF Bridge
  <2> QED BY <2>1, Zenon DEF QuadratureFault
<1>7. AcceptPacket(b, p) =
        [b EXCEPT !.dropped = count, !.missed = count, !.pending = None, !.ack = ack,
                  !.connected = TRUE, !.serialFault = FALSE, !.quadratureFault = fault,
                  !.pressed = p.pressed, !.deadman = p.deadman,
                  !.errors = p.errors, !.age = 0, !.previous = p.sequence,
                  !.previousErrors = p.errors, !.baseline = FALSE]
  BY <1>3, <1>4, <1>5, <1>6 DEF AcceptPacket
<1>8. 0 \in Ages
  BY LinkFacts DEF Ages
<1>9. AcceptPacket(b, p) \in Bridge
  <2>1. PICK c \in Bridge :
          c = [b EXCEPT !.dropped = count, !.missed = count, !.pending = None, !.ack = ack,
                        !.connected = TRUE, !.serialFault = FALSE, !.quadratureFault = fault]
    BY ZenonT(30) DEF Bridge
  <2> DEFINE d == [c EXCEPT !.pressed = p.pressed, !.deadman = p.deadman,
                            !.baseline = FALSE]
  <2>2. d \in Bridge
    BY <1>1, ZenonT(30) DEF Bridge
  <2>3. AcceptPacket(b, p)
          = [d EXCEPT !.errors = p.errors, !.age = 0, !.previous = p.sequence,
                      !.previousErrors = p.errors]
    BY <1>7, <2>1 DEF Bridge
  <2> HIDE DEF d
  <2> QED BY <1>1, <1>8, <2>2, <2>3 DEF Bridge
<1>10. /\ AcceptPacket(b, p).previous = p.sequence
       /\ AcceptPacket(b, p).dropped = count /\ AcceptPacket(b, p).missed = count
       /\ AcceptPacket(b, p).quadratureFault = fault
  BY <1>7 DEF Bridge
<1> QED BY <1>6, <1>9, <1>10
-----------------------------------------------------------------------------
(* The chain                                                                *)

LEMMA WireFacts ==
  ASSUME LinkTypes
  PROVE  /\ Len(wire) \in Nat /\ bridge.previous \in Sequences32 \cup {None}
         /\ \A i \in 1 .. Len(wire) : wire[i] \in Line
         /\ \A i \in 1 .. Len(wire) + 1 : Prior(i) \in Sequences32 \cup {None}
<1>1. /\ Len(wire) \in Nat /\ bridge.previous \in Sequences32 \cup {None}
      /\ \A i \in 1 .. Len(wire) : wire[i] \in Line
  BY DEF LinkTypes, Bridge
<1>2. \A line \in Line : line.kind = "packet" => line.sequence \in Sequences32
  BY DEF Line, Packets, Boot, Garbled
<1>3. ASSUME NEW i \in 1 .. Len(wire) + 1 PROVE Prior(i) \in Sequences32 \cup {None}
  <2>1. i # 1 => i - 1 \in 1 .. Len(wire)
    BY <1>1
  <2> QED BY <1>1, <1>2, <2>1 DEF Prior
<1> QED BY <1>1, <1>3

(* Steps that leave the lines and what the bridge compares with alone.      *)
LEMMA ChainKept ==
  ASSUME Chain, UNCHANGED wire, bridge'.previous = bridge.previous,
         decoder'.missed = decoder.missed, decoder'.sequence = decoder.sequence
  PROVE  Chain'
<1>1. \A i : Prior(i)' = Prior(i)
  BY DEF Prior
<1> QED BY <1>1 DEF Chain, Follows

(* Nothing is compared with a packet that is gone.                          *)
LEMMA ChainOfNothing ==
  ASSUME wire = <<>>, bridge.previous = None
  PROVE  Chain
BY DEF Chain, Follows, Prior

(* A line is put behind the others.                                         *)
LEMMA ChainGrows ==
  ASSUME LinkTypes, Chain, NEW line \in Line, wire' = Append(wire, line), UNCHANGED bridge,
         line.kind = "packet" =>
           /\ line.missed = decoder.missed /\ line.sequence = decoder.sequence
           /\ decoder'.missed = 0
           /\ decoder'.sequence = (decoder.sequence + 1) % SequenceModulus
  PROVE  Chain'
<1>1. PICK n \in Nat : n = Len(wire)
  BY WireFacts
<1>2. /\ Len(wire') = n + 1 /\ wire'[n + 1] = line
      /\ \A i \in 1 .. n : wire'[i] = wire[i]
  BY <1>1 DEF LinkTypes
<1>3. \A i \in 1 .. n + 1 : Prior(i)' = Prior(i)
  <2>1. \A i \in 1 .. n + 1 : i # 1 => i - 1 \in 1 .. n
    BY <1>1
  <2> QED BY <1>2, <2>1 DEF Prior
<1>4. Prior(n + 2)' = IF line.kind = "packet" THEN line.sequence ELSE None
  <2>1. n + 2 # 1 /\ (n + 2) - 1 = n + 1
    BY <1>1
  <2> QED BY <1>2, <2>1 DEF Prior
<1>5. decoder.missed \in 0 .. LossWindow /\ decoder.sequence \in Sequences32
  BY DEF LinkTypes, Decoder
<1>6. ASSUME NEW i \in 1 .. n + 1, wire'[i].kind = "packet"
      PROVE  /\ wire'[i].missed \in 0 .. LossWindow
             /\ Follows(Prior(i), wire[i].missed, wire[i].sequence)'
  <2>1. Prior(i)' = Prior(i)
    BY <1>3
  <2>2. CASE i \in 1 .. n
    BY <1>1, <1>2, <1>6, <2>1, <2>2 DEF Chain, Follows
  <2>3. CASE i = n + 1
    <3>1. Follows(Prior(n + 1), decoder.missed, decoder.sequence)
      BY <1>1 DEF Chain
    <3>2. line.kind = "packet" /\ wire'[i] = line
      BY <1>2, <1>6, <2>3
    <3>3. wire'[i].missed = decoder.missed /\ wire'[i].sequence = decoder.sequence
      BY <3>2
    <3>4. Prior(i)' = Prior(n + 1)
      BY <2>1, <2>3
    <3> QED BY <1>5, <3>1, <3>3, <3>4 DEF Follows
  <2> QED BY <1>1, <2>2, <2>3
<1>7. Follows(Prior(Len(wire) + 1), decoder.missed, decoder.sequence)'
  <2>1. Prior(Len(wire) + 1)' = Prior(n + 2)'
    BY <1>1, <1>2
  <2>2. CASE line.kind # "packet"
    BY <1>4, <2>1, <2>2 DEF Follows
  <2>3. CASE line.kind = "packet"
    <3>1. decoder.sequence + 0 + 1 = decoder.sequence + 1
      BY <1>5 DEF Sequences32
    <3> QED BY <1>4, <2>1, <2>3, <3>1 DEF Follows
  <2> QED BY <2>2, <2>3
<1> QED BY <1>2, <1>6, <1>7 DEF Chain

(* The first line is read: what the bridge then compares with is the packet *)
(* in it, or nothing.                                                       *)
LEMMA ChainShrinks ==
  ASSUME LinkTypes, Chain, wire # <<>>, wire' = Tail(wire), UNCHANGED decoder,
         bridge'.previous
           = IF wire[1].kind = "packet" THEN wire[1].sequence ELSE None
  PROVE  Chain'
<1>1. PICK n \in Nat : n = Len(wire) /\ n > 0
  BY WireFacts DEF LinkTypes
<1>2. Len(wire') = n - 1 /\ \A i \in 1 .. n - 1 : wire'[i] = wire[i + 1]
  BY <1>1 DEF LinkTypes
<1>3. ASSUME NEW i \in 1 .. n PROVE Prior(i)' = Prior(i + 1)
  <2>1. CASE i = 1
    BY <2>1 DEF Prior
  <2>2. CASE i # 1
    <3>1. i - 1 \in 1 .. n - 1 /\ (i - 1) + 1 = i /\ i + 1 # 1 /\ (i + 1) - 1 = i
      BY <2>2
    <3> QED BY <1>2, <2>2, <3>1 DEF Prior
  <2> QED BY <2>1, <2>2
<1>4. ASSUME NEW i \in 1 .. n - 1, wire'[i].kind = "packet"
      PROVE  /\ wire'[i].missed \in 0 .. LossWindow
             /\ Follows(Prior(i), wire[i].missed, wire[i].sequence)'
  <2>1. i \in 1 .. n /\ i + 1 \in 1 .. n
    BY <1>1
  <2>2. Prior(i)' = Prior(i + 1) /\ wire'[i] = wire[i + 1]
    BY <1>2, <1>3, <2>1
  <2> QED BY <1>1, <1>4, <2>1, <2>2 DEF Chain, Follows
<1>5. Follows(Prior(Len(wire) + 1), decoder.missed, decoder.sequence)'
  <2>1. Len(wire') + 1 = n /\ n \in 1 .. n
    BY <1>1, <1>2
  <2>2. Prior(Len(wire) + 1)' = Prior(n + 1)
    BY <1>3, <2>1 DEF Prior
  <2> QED BY <1>1, <2>2 DEF Chain, Follows
<1> QED BY <1>2, <1>4, <1>5 DEF Chain
-----------------------------------------------------------------------------
(* The steps                                                                *)

(* The lines of the decoder.                                                *)
LEMMA ReportIs ==
  ASSUME LinkTypes, NEW misreads \in 0 .. 1, decoder.errors + misreads <= MaxErrors
  PROVE  /\ Report(misreads) \in Decoder
         /\ Report(misreads).sequence = (decoder.sequence + 1) % SequenceModulus
         /\ Report(misreads).missed = decoder.missed
         /\ decoder.errors + misreads \in Errors
<1>1. /\ decoder \in Decoder /\ decoder.errors + misreads \in Errors
      /\ (decoder.sequence + 1) % SequenceModulus \in Sequences32
  BY NextSequence, LinkFacts DEF LinkTypes, Decoder, Errors
<1> QED BY <1>1 DEF Report, Decoder

LEMMA EmitStatusKeeps == LinkInv /\ EmitStatus => LinkInv'
<1> SUFFICES ASSUME LinkInv, EmitStatus PROVE LinkInv'
  OBVIOUS
<1>1. LinkTypes /\ Chain /\ UNCHANGED <<bridge, port, runtime>> /\ port # "closed"
  BY DEF LinkInv, EmitStatus
<1>2. PICK misreads \in 0 .. 1, held \in BOOLEAN :
        /\ decoder.errors + misreads <= MaxErrors
        /\ decoder' = [Report(misreads) EXCEPT !.missed = 0]
        /\ wire' = Append(wire,
             [kind |-> "packet", sequence |-> decoder.sequence,
              errors |-> decoder.errors + misreads,
              pressed |-> decoder.pressed, deadman |-> held, missed |-> decoder.missed])
  BY DEF EmitStatus
<1>3. PICK r \in Decoder :
        /\ r = Report(misreads)
        /\ r.sequence = (decoder.sequence + 1) % SequenceModulus
        /\ decoder.errors + misreads \in Errors
  BY <1>1, <1>2, ReportIs
<1>4. /\ decoder' \in Decoder /\ decoder'.missed = 0
      /\ decoder'.sequence = (decoder.sequence + 1) % SequenceModulus
  <2>1. 0 \in 0 .. LossWindow /\ decoder' = [r EXCEPT !.missed = 0]
    BY <1>2, <1>3, LinkFacts
  <2> QED BY <1>3, <2>1 DEF Decoder
<1>5. PICK line \in Packets :
        /\ wire' = Append(wire, line) /\ line.kind = "packet"
        /\ line.missed = decoder.missed /\ line.sequence = decoder.sequence
  BY <1>1, <1>2, <1>3 DEF LinkTypes, Decoder, Packets
<1>6. Chain'
  BY <1>1, <1>4, <1>5, ChainGrows DEF Line
<1>7. wire' \in Seq(Line)
  <2>1. wire \in Seq(Line) /\ line \in Line
    BY <1>1 DEF LinkTypes, Line
  <2> HIDE DEF Line
  <2> QED BY <1>5, <2>1
<1> QED BY <1>1, <1>4, <1>6, <1>7 DEF LinkInv, LinkTypes, DropsAreCounted

LEMMA LosePacketKeeps == LinkInv /\ LosePacket => LinkInv'
<1> SUFFICES ASSUME LinkInv, LosePacket PROVE LinkInv'
  OBVIOUS
<1>1. LinkTypes /\ Chain /\ UNCHANGED <<wire, bridge, port, runtime>>
  BY DEF LinkInv, LosePacket
<1>2. PICK misreads \in 0 .. 1 :
        /\ decoder.errors + misreads <= MaxErrors /\ decoder.missed < LossWindow
        /\ decoder' = [Report(misreads) EXCEPT !.missed = IF port = "closed" THEN 0 ELSE @ + 1]
  BY DEF LosePacket
<1>3. PICK r \in Decoder :
        /\ r = Report(misreads) /\ r.missed = decoder.missed
        /\ r.sequence = (decoder.sequence + 1) % SequenceModulus
  BY <1>1, <1>2, ReportIs
<1>4. PICK m \in 0 .. LossWindow :
        /\ m = IF port = "closed" THEN 0 ELSE decoder.missed + 1
        /\ decoder' = [r EXCEPT !.missed = m]
  <2>1. PICK m \in 0 .. LossWindow : m = IF port = "closed" THEN 0 ELSE decoder.missed + 1
    BY <1>1, <1>2, LinkFacts DEF LinkTypes, Decoder
  <2>2. decoder' = [r EXCEPT !.missed = m]
    BY <1>2, <1>3, <2>1 DEF Decoder
  <2> QED BY <2>1, <2>2
<1>5. /\ decoder' \in Decoder /\ decoder'.missed = m
      /\ decoder'.sequence = (decoder.sequence + 1) % SequenceModulus
  BY <1>3, <1>4 DEF Decoder
<1>6. Chain'
  <2>1. CASE port = "closed"
    <3>1. wire' = <<>> /\ bridge'.previous = None
      BY <1>1, <2>1 DEF LinkInv
    <3> QED BY <3>1 DEF Chain, Follows, Prior
  <2>2. CASE port # "closed"
    <3>1. \A i : Prior(i)' = Prior(i)
      BY <1>1 DEF Prior
    <3>2. PICK last \in Sequences32 \cup {None} :
            /\ last = Prior(Len(wire) + 1)
            /\ Follows(last, decoder.missed, decoder.sequence)
      BY <1>1, WireFacts DEF Chain
    <3>3. decoder.missed \in 0 .. LossWindow /\ m = decoder.missed + 1
      BY <1>1, <1>4, <2>2 DEF LinkTypes, Decoder
    <3>4. Follows(last, decoder'.missed, decoder'.sequence)
      BY <1>5, <3>2, <3>3, OneMoreLost DEF Follows
    <3>5. Follows(Prior(Len(wire) + 1), decoder.missed, decoder.sequence)'
      BY <1>1, <3>1, <3>2, <3>4 DEF Follows
    <3> QED BY <1>1, <3>1, <3>5 DEF Chain, Follows
  <2> QED BY <2>1, <2>2
<1> QED BY <1>1, <1>5, <1>6 DEF LinkInv, LinkTypes, DropsAreCounted

LEMMA RebootKeeps == LinkInv /\ Reboot => LinkInv'
<1> SUFFICES ASSUME LinkInv, Reboot PROVE LinkInv'
  OBVIOUS
<1>1. LinkTypes /\ Chain /\ UNCHANGED <<bridge, port, runtime>>
  BY DEF LinkInv, Reboot
<1>2. decoder' \in Decoder
  <2>1. 0 \in Sequences32 /\ 0 \in Errors /\ 0 \in 0 .. LossWindow
    BY LinkFacts DEF Sequences32, Errors
  <2> QED BY <1>1, <2>1 DEF Reboot, LinkTypes, Decoder
<1>3. CASE port = "closed"
  <2>1. wire' = <<>> /\ wire = <<>> /\ bridge'.previous = None
    BY <1>1, <1>3 DEF LinkInv, Reboot
  <2>2. Chain'
    BY <2>1 DEF Chain, Follows, Prior
  <2> QED BY <1>1, <1>2, <2>1, <2>2 DEF LinkInv, LinkTypes, DropsAreCounted
<1>4. CASE port # "closed"
  <2>1. Boot \in Line /\ Boot.kind # "packet" /\ wire' = Append(wire, Boot)
    BY <1>4 DEF Line, Boot, Reboot
  <2>2. Chain'
    BY <1>1, <2>1, ChainGrows
  <2>3. wire' \in Seq(Line)
    <3>1. wire \in Seq(Line)
      BY <1>1 DEF LinkTypes
    <3> QED BY <2>1, <3>1
  <2> QED BY <1>1, <1>2, <1>4, <2>2, <2>3 DEF LinkInv, LinkTypes, DropsAreCounted
<1> QED BY <1>3, <1>4

LEMMA GarbleKeeps == LinkInv /\ Garble => LinkInv'
<1> SUFFICES ASSUME LinkInv, Garble PROVE LinkInv'
  OBVIOUS
<1>1. LinkTypes /\ Chain /\ UNCHANGED <<decoder, bridge, port, runtime>>
  BY DEF LinkInv, Garble
<1>2. PICK k \in 1 .. Len(wire) : wire' = [wire EXCEPT ![k] = Garbled]
  <2>1. DOMAIN wire = 1 .. Len(wire)
    BY <1>1 DEF LinkTypes
  <2> QED BY <2>1 DEF Garble
<1>3. PICK n \in Nat : n = Len(wire)
  BY <1>1, WireFacts
<1>4. /\ wire' \in Seq(Line) /\ Len(wire') = n /\ wire'[k] = Garbled
      /\ \A i \in 1 .. n : i # k => wire'[i] = wire[i]
      /\ Garbled.kind # "packet"
  BY <1>1, <1>2, <1>3 DEF LinkTypes, Line, Garbled
<1>5. \A i \in 1 .. n + 1 : Prior(i)' = Prior(i) \/ Prior(i)' = None
  <2>1. \A i \in 1 .. n + 1 : i # 1 => i - 1 \in 1 .. n
    BY <1>3
  <2> QED BY <1>1, <1>4, <2>1 DEF Prior
<1>6. Chain'
  <2>1. ASSUME NEW i \in 1 .. n, wire'[i].kind = "packet"
        PROVE  /\ wire'[i].missed \in 0 .. LossWindow
               /\ Follows(Prior(i), wire[i].missed, wire[i].sequence)'
    <3>1. i # k /\ wire'[i] = wire[i]
      BY <1>4, <2>1
    <3>2. Prior(i)' = Prior(i) \/ Prior(i)' = None
      BY <1>5
    <3> QED BY <1>1, <1>3, <2>1, <3>1, <3>2 DEF Chain, Follows
  <2>2. Follows(Prior(Len(wire) + 1), decoder.missed, decoder.sequence)'
    <3>1. n + 1 \in 1 .. n + 1 /\ Prior(Len(wire) + 1)' = Prior(n + 1)'
      BY <1>3, <1>4
    <3> QED BY <1>1, <1>3, <1>5, <3>1 DEF Chain, Follows
  <2> QED BY <1>4, <2>1, <2>2 DEF Chain
<1>7. port # "closed"
  <2>1. wire # <<>>
    BY <1>2, <1>3
  <2> QED BY <2>1 DEF LinkInv
<1> QED BY <1>1, <1>4, <1>6, <1>7 DEF LinkInv, LinkTypes, DropsAreCounted

(* The bridge at the end of a link, and at the start of one.                *)
LEMMA PortKeeps ==
  ASSUME LinkInv, bridge' \in Bridge, bridge'.previous = None, wire' = <<>>,
         SameCounts(bridge, bridge'), port' \in {"closed", "open"},
         UNCHANGED <<decoder, runtime>>
  PROVE  LinkInv'
<1>1. Chain'
  BY DEF Chain, Follows, Prior
<1> QED BY <1>1 DEF LinkInv, LinkTypes, DropsAreCounted, SameCounts

LEMMA OpenPortKeeps == LinkInv /\ OpenPort => LinkInv'
<1> SUFFICES ASSUME LinkInv, OpenPort PROVE LinkInv'
  OBVIOUS
<1>1. bridge \in Bridge /\ bridge.previous = None /\ port = "closed"
  BY DEF LinkInv, LinkTypes, OpenPort
<1>2. bridge' = bridge \/ bridge' = SafeSnapshot(bridge)
  BY DEF OpenPort, NoteTransportFault
<1>3. /\ bridge' \in Bridge /\ bridge'.previous = None /\ SameCounts(bridge, bridge')
  BY <1>1, <1>2, SafeSnapshotIs DEF SameCounts
<1> QED BY <1>1, <1>3, PortKeeps DEF OpenPort

LEMMA ReadFailureKeeps == LinkInv /\ ReadFailure => LinkInv'
<1> SUFFICES ASSUME LinkInv, ReadFailure PROVE LinkInv'
  OBVIOUS
<1>1. PICK c \in Bridge :
        c = ObserveFaultReset(bridge, runtime.request) /\ SameLink(bridge, c)
  BY ObservedReset DEF LinkInv, LinkTypes
<1>2. /\ bridge' \in Bridge /\ bridge'.previous = None /\ SameCounts(c, bridge')
  BY <1>1, SafeSnapshotIs DEF ReadFailure, NoteTransportFault
<1> QED BY <1>1, <1>2, PortKeeps DEF ReadFailure, SameLink, SameCounts

LEMMA ReadNothingKeeps == LinkInv /\ ReadNothing => LinkInv'
<1> SUFFICES ASSUME LinkInv, ReadNothing PROVE LinkInv'
  OBVIOUS
<1>1. PICK c \in Bridge :
        c = ObserveFaultReset(bridge, runtime.request) /\ SameLink(bridge, c)
  BY ObservedReset DEF LinkInv, LinkTypes
<1>2. /\ bridge' \in Bridge /\ SameCounts(bridge, bridge')
      /\ IF TimedOut(c) THEN bridge'.previous = None ELSE bridge'.previous = bridge.previous
  BY <1>1, CheckTimeoutIs DEF ReadNothing, SameLink, SameCounts
<1>3. CASE TimedOut(c)
  BY <1>1, <1>2, <1>3, PortKeeps DEF ReadNothing
<1>4. CASE ~TimedOut(c)
  <2>1. UNCHANGED <<decoder, wire, port, runtime>> /\ port # "closed"
    BY <1>1, <1>4 DEF ReadNothing
  <2>2. Chain'
    BY <1>2, <1>4, <2>1, ChainKept DEF LinkInv
  <2> QED BY <1>2, <2>1, <2>2 DEF LinkInv, LinkTypes, DropsAreCounted, SameCounts
<1> QED BY <1>3, <1>4

(* The line at the head of the wire, and what the bridge makes of it.       *)
LEMMA ReadLineIs ==
  ASSUME LinkInv, ReadLine
  PROVE  /\ bridge' \in Bridge /\ bridge'.dropped = bridge'.missed
         /\ bridge'.previous
              = IF wire[1].kind = "packet" THEN wire[1].sequence ELSE None
         /\ bridge.quadratureFault /\ ~bridge'.quadratureFault =>
              \/ Head(wire) = Boot
              \/ bridge.connected /\ (bridge.pending # None \/ runtime.request # 0)
<1>1. PICK b \in Bridge :
        /\ b = ObserveFaultReset(bridge, runtime.request) /\ SameLink(bridge, b)
        /\ b.pending # None => bridge.pending # None \/ runtime.request # 0
  BY ObservedReset DEF LinkInv, LinkTypes
<1>2. /\ wire \in Seq(Line) /\ wire # <<>> /\ Chain /\ bridge.dropped = bridge.missed
  BY DEF LinkInv, LinkTypes, DropsAreCounted, ReadLine
<1>3. PICK line \in Line : line = wire[1] /\ line = Head(wire) /\ 1 \in 1 .. Len(wire)
  BY <1>2
<1>4. bridge' = AcceptLine(b, line)
  BY <1>1, <1>3 DEF ReadLine
<1>5. CASE line = Boot
  <2>1. bridge' = ResetForBoot(b) /\ line.kind # "packet"
    BY <1>4, <1>5 DEF AcceptLine, Boot
  <2> QED BY <1>1, <1>2, <1>3, <1>5, <2>1, ResetForBootIs DEF SameLink, SameCounts
<1>6. CASE line = Garbled
  <2>1. bridge' = SafeSnapshot(b) /\ line.kind # "packet"
    BY <1>4, <1>6 DEF AcceptLine, Boot, Garbled, NoteProtocolError
  <2>2. /\ bridge' \in Bridge /\ bridge'.previous = None /\ SameCounts(b, bridge')
        /\ bridge'.quadratureFault = b.quadratureFault
    BY <2>1, SafeSnapshotIs
  <2> QED BY <1>1, <1>2, <1>3, <2>1, <2>2 DEF SameLink, SameCounts
<1>7. CASE line \in Packets
  <2>1. line.kind = "packet" /\ line # Boot /\ line # Garbled
    BY <1>7 DEF Packets, Boot, Garbled
  <2>2. bridge' = AcceptPacket(b, line)
    BY <1>4, <2>1 DEF AcceptLine
  <2>3. /\ line.missed \in 0 .. LossWindow
        /\ Follows(b.previous, line.missed, line.sequence) /\ b.dropped = b.missed
    BY <1>1, <1>2, <1>3, <2>1 DEF Chain, Prior, SameLink, SameCounts
  <2>4. /\ bridge' \in Bridge /\ bridge'.previous = line.sequence
        /\ bridge'.dropped = bridge'.missed
        /\ b.quadratureFault /\ ~bridge'.quadratureFault => ResetAccepted(b, line)
    BY <1>7, <2>2, <2>3, AcceptPacketIs
  <2>5. ResetAccepted(b, line) => b.pending # None /\ b.connected
    BY DEF ResetAccepted
  <2> QED BY <1>1, <1>3, <2>1, <2>4, <2>5 DEF SameLink
<1> QED BY <1>5, <1>6, <1>7 DEF Line

LEMMA ReadLineKeeps == LinkInv /\ ReadLine => LinkInv'
<1> SUFFICES ASSUME LinkInv, ReadLine PROVE LinkInv'
  OBVIOUS
<1>1. /\ wire \in Seq(Line) /\ wire # <<>> /\ wire' = Tail(wire) /\ port # "closed"
      /\ UNCHANGED <<decoder, port, runtime>> /\ LinkTypes /\ Chain
  BY DEF LinkInv, LinkTypes, ReadLine
<1>2. Chain'
  BY <1>1, ReadLineIs, ChainShrinks
<1>3. wire' \in Seq(Line)
  BY <1>1
<1> QED BY <1>1, <1>2, <1>3, ReadLineIs DEF LinkInv, LinkTypes, DropsAreCounted

(* The button, the runtime and the clock.                                   *)
LEMMA OthersKeep ==
  ASSUME LinkInv, TurnButton \/ ClearFault \/ EndReset \/ Tick \/ UNCHANGED vars
  PROVE  LinkInv'
<1>1. LinkTypes /\ Chain
  BY DEF LinkInv
<1>2. UNCHANGED <<wire, port>>
  BY DEF TurnButton, ClearFault, EndReset, Tick, vars
<1>3. /\ decoder' \in Decoder
      /\ decoder'.missed = decoder.missed /\ decoder'.sequence = decoder.sequence
  <2>1. CASE TurnButton
    BY <1>1, <2>1 DEF TurnButton, LinkTypes, Decoder
  <2>2. CASE UNCHANGED decoder
    BY <1>1, <2>2 DEF LinkTypes
  <2> QED BY <2>1, <2>2 DEF ClearFault, EndReset, Tick, vars
<1>4. bridge' \in Bridge /\ SameLink(bridge, bridge')
  <2>1. CASE Tick
    BY <1>1, <2>1, ElapsedIs DEF Tick, LinkTypes
  <2>2. CASE UNCHANGED bridge
    BY <1>1, <2>2 DEF LinkTypes, SameLink, SameCounts
  <2> QED BY <2>1, <2>2 DEF TurnButton, ClearFault, EndReset, vars
<1>5. runtime' \in [generation: Requests, request: Requests]
  <2>1. CASE ClearFault
    <3>1. /\ runtime \in [generation: Requests, request: Requests]
          /\ 0 \in Requests
          /\ \A g \in Requests : g < MaxRequests => g + 1 \in Requests
      BY <1>1, LinkFacts DEF LinkTypes, Requests
    <3>2. CASE bridge.quadratureFault
      <4>1. /\ runtime.generation \in Requests /\ runtime.generation < MaxRequests
            /\ runtime' = [generation |-> runtime.generation + 1,
                           request |-> runtime.generation + 1]
        BY <2>1, <3>1, <3>2 DEF ClearFault
      <4>2. runtime.generation + 1 \in Requests
        BY <3>1, <4>1
      <4> QED BY <4>1, <4>2
    <3>3. CASE ~bridge.quadratureFault
      <4>1. runtime' = [runtime EXCEPT !.request = 0]
        BY <2>1, <3>3 DEF ClearFault
      <4> QED BY <3>1, <4>1
    <3> QED BY <3>2, <3>3
  <2>2. CASE EndReset
    <3>1. runtime \in [generation: Requests, request: Requests] /\ 0 \in Requests
      BY <1>1, LinkFacts DEF LinkTypes, Requests
    <3>2. runtime' = [runtime EXCEPT !.request = 0]
      BY <2>2 DEF EndReset
    <3> QED BY <3>1, <3>2
  <2>3. CASE UNCHANGED runtime
    BY <1>1, <2>3 DEF LinkTypes
  <2> QED BY <2>1, <2>2, <2>3 DEF TurnButton, Tick, vars
<1>6. Chain'
  BY <1>1, <1>2, <1>3, <1>4, ChainKept DEF SameLink
<1> QED
  BY <1>1, <1>2, <1>3, <1>4, <1>5, <1>6
  DEF LinkInv, LinkTypes, DropsAreCounted, SameLink, SameCounts

LEMMA InitialLink == Init => LinkInv
<1> SUFFICES ASSUME Init PROVE LinkInv
  OBVIOUS
<1>1. decoder \in Decoder
  BY LinkFacts DEF Init, NewDecoder, Decoder, Sequences32, Errors
<1>2. bridge \in Bridge /\ bridge.previous = None /\ bridge.dropped = bridge.missed
  BY SafeBridgeType DEF Init, SafeBridge
<1>3. runtime \in [generation: Requests, request: Requests]
  BY LinkFacts DEF Init, NewRuntime, Requests
<1>4. wire = <<>> /\ wire \in Seq(Line) /\ port = "closed"
  BY DEF Init
<1>5. Chain
  BY <1>2, <1>4, ChainOfNothing
<1> QED BY <1>1, <1>2, <1>3, <1>4, <1>5 DEF LinkInv, LinkTypes, DropsAreCounted

LEMMA LinkStep == LinkInv /\ [Next]_vars => LinkInv'
BY EmitStatusKeeps, LosePacketKeeps, RebootKeeps, GarbleKeeps, OpenPortKeeps,
   ReadFailureKeeps, ReadNothingKeeps, ReadLineKeeps, OthersKeep
DEF Next, BridgeLoop

LEMMA LinkInvariance == Spec => []LinkInv
BY InitialLink, LinkStep, PTL DEF Spec
-----------------------------------------------------------------------------
(* The dropped-packet counter of the bridge counts exactly the packets lost *)
(* between two it accepted, across every wrap of the sequence and of the    *)
(* counter, through restarts of the decoder, garbled lines and closed ports *)
(* (accept_with_line_length).                                               *)
THEOREM DropsCounted == Spec => []DropsAreCounted
<1>1. LinkInv => DropsAreCounted
  BY DEF LinkInv
<1> QED BY <1>1, LinkInvariance, PTL

(* A quadrature fault that is shown ends only with a restart of the decoder *)
(* or with a reset the runtime asked for while the port is open: a timeout, *)
(* a garbled line, a read that fails and a reopened port all keep it        *)
(* (safe_snapshot, accept_with_line_length).                                *)
THEOREM QuadratureFaultHeld == Spec => QuadratureFaultIsHeld
<1> DEFINE Held ==
      bridge.quadratureFault /\ ~bridge'.quadratureFault =>
        \/ BootRead
        \/ bridge.connected /\ (bridge.pending # None \/ runtime.request # 0)
<1>1. LinkInv /\ [Next]_vars => [Held]_vars
  <2> SUFFICES ASSUME LinkInv, Next, bridge.quadratureFault, ~bridge'.quadratureFault
               PROVE  Held
    OBVIOUS
  <2>1. bridge \in Bridge /\ runtime.request \in Requests
    BY DEF LinkInv, LinkTypes
  <2>2. CASE ReadLine
    BY <2>2, ReadLineIs DEF ReadLine, BootRead
  <2>3. ~OpenPort
    BY <2>1, SafeSnapshotIs DEF OpenPort, NoteTransportFault
  <2>4. PICK c \in Bridge :
          /\ c = ObserveFaultReset(bridge, runtime.request)
          /\ c.quadratureFault = bridge.quadratureFault
    BY <2>1, ObservedReset DEF SameLink
  <2>5. ~ReadFailure
    BY <2>4, SafeSnapshotIs DEF ReadFailure, NoteTransportFault
  <2>6. ~ReadNothing
    BY <2>4, CheckTimeoutIs DEF ReadNothing
  <2>7. ~Tick
    BY <2>1, ElapsedIs DEF Tick, SameLink
  <2>8. bridge' # bridge
    OBVIOUS
  <2> QED
    BY <2>2, <2>3, <2>5, <2>6, <2>7, <2>8
    DEF Next, BridgeLoop, EmitStatus, LosePacket, Reboot, TurnButton, Garble,
        ClearFault, EndReset
<1>2. Spec => [][Held]_vars
  BY <1>1, LinkInvariance, PTL DEF Spec
<1> QED BY <1>2 DEF QuadratureFaultIsHeld
===============================================================================
